---------------------------- MODULE Spec2Model ----------------------------
(***************************************************************************)
(* Rule-augmentation engine of Chess-Online-Ultimate (src/app.py): the     *)
(* check oracle, the move legality evaluator, the checkmate oracle and the *)
(* turn / bonus-move machine of one room, over a model of the baseline     *)
(* chess board the code drives (piece placement, side to move, en passant  *)
(* square and the stack of saved states used by push and pop).             *)
(*                                                                         *)
(* Castling is outside the model: every modelled position is one in which  *)
(* no castling move is available (the home-rank squares between king and   *)
(* rook are occupied, or king and rook have left their home squares).      *)
(***************************************************************************)
EXTENDS Integers, Sequences, FiniteSets, TLC

VARIABLES
    games,      \* the global room dictionary: room id -> room record
    last,       \* observation of the last handled request (history variable)
    log,        \* colours of the moves pushed on the room's board (history variable)
    budget,     \* moves the exploration may still push (bounds the search)
    running,    \* make_move requests between their trial push and its pop:
                \* request id -> the handler's local variables
    backend     \* the object of src/backend under exploration (a Deck, the
                \* StaticCardBase or a StatusEffect) with what the last call on
                \* it returned; the empty function while a room is explored

vars == <<games, last, log, budget, running, backend>>

----------------------------------------------------------------------------
(* Python values whose dynamic type decides behaviour.                      *)

PyBool(b) == [ty |-> "bool", b |-> b]
PyStr(s)  == [ty |-> "str", s |-> s]
PyInt(i)  == [ty |-> "int", i |-> i]

\* Python truthiness: a bool is itself, a str is true unless empty.
Truthy(x) == IF x.ty = "bool" THEN x.b ELSE IF x.ty = "str" THEN x.s # "" ELSE x.i # 0

----------------------------------------------------------------------------
(* Squares and geometry.                                                    *)

BoardWidth == 8
SQUARES == 0 .. (BoardWidth * BoardWidth - 1)

None == -1                      \* the absent square (Python None)

square_file(sq) == sq % BoardWidth
square_rank(sq) == sq \div BoardWidth
square(f, r) == r * BoardWidth + f

Abs(x) == IF x < 0 THEN -x ELSE x
Max(x, y) == IF x < y THEN y ELSE x
Sign(x) == IF x < 0 THEN -1 ELSE IF x > 0 THEN 1 ELSE 0

WHITE == TRUE
BLACK == FALSE

is_queen_like_move(from_sq, to_sq) ==
    LET file1 == square_file(from_sq)
        rank1 == square_rank(from_sq)
        file2 == square_file(to_sq)
        rank2 == square_rank(to_sq)
    IN  file1 = file2 \/ rank1 = rank2 \/ Abs(file1 - file2) = Abs(rank1 - rank2)

\* round() of the exact value num / den (den > 0): half goes to the even side.
RoundHalfEven(num, den) ==
    LET fl == num \div den
        r  == num % den
    IN  IF 2 * r > den THEN fl + 1
        ELSE IF 2 * r < den THEN fl
        ELSE IF fl % 2 = 0 THEN fl ELSE fl + 1

\* The coordinate is accumulated in binary floating point, start + step + step
\* + ...; the sum differs from the exact value only on these <<start, diff>>
\* pairs, all with six steps at the third step, where the exact value is a
\* half and the float sum falls on the odd side of it.
FloatDrift == { <<1, -1>>, <<2, -1>>, <<3, -1>>, <<3, 1>>,
                <<4, 1>>, <<6, -1>>, <<6, 1>>, <<7, -5>> }

SteppedCoord(start, diff, steps, i) ==
    LET exact == RoundHalfEven(start * steps + i * diff, steps)
        fl    == (start * steps + i * diff) \div steps
    IN  IF steps = 6 /\ i = 3 /\ <<start, diff>> \in FloatDrift
        THEN (IF exact = fl THEN fl + 1 ELSE fl)
        ELSE exact

get_squares_between(from_sq, to_sq) ==
    LET file1 == square_file(from_sq)
        rank1 == square_rank(from_sq)
        file_diff == square_file(to_sq) - file1
        rank_diff == square_rank(to_sq) - rank1
        steps == Max(Abs(file_diff), Abs(rank_diff))
    IN  IF steps <= 1 THEN << >>
        ELSE [i \in 1 .. (steps - 1) |->
                square(SteppedCoord(file1, file_diff, steps, i),
                       SteppedCoord(rank1, rank_diff, steps, i))]

SeqRange(s) == { s[i] : i \in DOMAIN s }

\* chess.between(a, b): the squares strictly between two squares on a common
\* rank, file or diagonal; empty when they are not aligned.
between(a, b) ==
    LET df == square_file(b) - square_file(a)
        dr == square_rank(b) - square_rank(a)
        n  == Max(Abs(df), Abs(dr))
    IN  IF a # b /\ (df = 0 \/ dr = 0 \/ Abs(df) = Abs(dr))
        THEN { square(square_file(a) + i * Sign(df), square_rank(a) + i * Sign(dr)) :
                 i \in 1 .. (n - 1) }
        ELSE {}

----------------------------------------------------------------------------
(* The baseline board (chess.Board as the code uses it).                    *)

PAWN == "P"
KNIGHT == "N"
BISHOP == "B"
ROOK == "R"
QUEEN == "Q"
KING == "K"

Piece(pt, co) == [pt |-> pt, co |-> co]
NoPiece == [pt |-> "none", co |-> FALSE]

\* board.piece_at(sq): the piece, or None (falsy).
piece_at(board, sq) == IF sq \in DOMAIN board.pc THEN board.pc[sq] ELSE NoPiece
IsPiece(p) == p.pt # "none"

\* board.pieces(piece_type, color): the squares holding such a piece.
pieces(board, pt, co) ==
    { s \in DOMAIN board.pc : board.pc[s].pt = pt /\ board.pc[s].co = co }

SetMin(S) == CHOOSE x \in S : \A y \in S : x <= y
SetMax(S) == CHOOSE x \in S : \A y \in S : x >= y

\* board.king(color): the king's square (the highest if several), or None.
king(board, co) ==
    LET ks == pieces(board, KING, co)
    IN  IF ks = {} THEN None ELSE SetMax(ks)

\* Does the piece standing on s attack square t, given the occupancy?
PieceAttacks(pc, s, t) ==
    LET p  == pc[s]
        df == square_file(t) - square_file(s)
        dr == square_rank(t) - square_rank(s)
        clear == \A m \in between(s, t) : m \notin DOMAIN pc
    IN  /\ s # t
        /\ CASE p.pt = PAWN   -> Abs(df) = 1 /\ dr = (IF p.co THEN 1 ELSE -1)
             [] p.pt = KNIGHT -> {Abs(df), Abs(dr)} = {1, 2}
             [] p.pt = KING   -> Max(Abs(df), Abs(dr)) = 1
             [] p.pt = BISHOP -> Abs(df) = Abs(dr) /\ clear
             [] p.pt = ROOK   -> (df = 0 \/ dr = 0) /\ clear
             [] p.pt = QUEEN  -> (df = 0 \/ dr = 0 \/ Abs(df) = Abs(dr)) /\ clear
             [] OTHER -> FALSE

\* board.attackers(color, square)
attackers(board, co, sq) ==
    { s \in DOMAIN board.pc : board.pc[s].co = co /\ PieceAttacks(board.pc, s, sq) }

\* board.is_attacked_by(color, square)
is_attacked_by(board, co, sq) ==
    \E s \in DOMAIN board.pc : board.pc[s].co = co /\ PieceAttacks(board.pc, s, sq)

\* board.is_check(): the king of the side to move is attacked by the other side.
board_is_check(board) ==
    LET k == king(board, board.turn)
    IN  k # None /\ is_attacked_by(board, ~board.turn, k)

Move(from_sq, to_sq) == [from |-> from_sq, to |-> to_sq, promotion |-> "none"]

\* board.is_en_passant(move)
is_en_passant(board, move) ==
    /\ board.ep = move.to
    /\ piece_at(board, move.from).pt = PAWN
    /\ Abs(move.to - move.from) \in {7, 9}
    /\ move.to \notin DOMAIN board.pc

\* board.is_capture(move): either touched square holds a piece of the side not
\* to move, or the move is an en passant capture.
is_capture(board, move) ==
    \/ \E s \in {move.from, move.to} \ ({move.from} \cap {move.to}) :
          s \in DOMAIN board.pc /\ board.pc[s].co = ~board.turn
    \/ is_en_passant(board, move)

SavedState(board) == [pc |-> board.pc, turn |-> board.turn, ep |-> board.ep]

\* bool(move) is false: the move from a1 to a1 without promotion is the null
\* move, which push handles by swapping the turn only.
IsNullMove(move) == move.from = 0 /\ move.to = 0 /\ move.promotion = "none"

\* The piece placement after board.push(move).  The piece put on the target
\* square takes the colour of the side to move.
PlacementAfter(board, move) ==
    IF IsNullMove(move) THEN board.pc
    ELSE
    LET pt   == board.pc[move.from].pt
        diff == move.to - move.from
        isEp == /\ pt = PAWN
                /\ ~(diff = 16 /\ square_rank(move.from) = 1)
                /\ ~(diff = -16 /\ square_rank(move.from) = 6)
                /\ board.ep # None
                /\ move.to = board.ep
                /\ Abs(diff) \in {7, 9}
                /\ move.to \notin DOMAIN board.pc
        gone == {move.from} \cup
                (IF isEp THEN {board.ep + (IF board.turn THEN -8 ELSE 8)} ELSE {})
        newpt == IF move.promotion # "none" THEN move.promotion ELSE pt
    IN  [s \in (DOMAIN board.pc \ gone) \cup {move.to} |->
            IF s = move.to THEN Piece(newpt, board.turn) ELSE board.pc[s]]

\* board.push(move): saves the state, moves the piece, flips the turn.
push(board, move) ==
    IF IsNullMove(move)
    THEN [pc |-> board.pc, turn |-> ~board.turn, ep |-> None,
          stack |-> Append(board.stack, SavedState(board))]
    ELSE
    LET pt   == board.pc[move.from].pt
        diff == move.to - move.from
        ep2  == IF pt = PAWN /\ diff = 16 /\ square_rank(move.from) = 1
                THEN move.from + 8
                ELSE IF pt = PAWN /\ diff = -16 /\ square_rank(move.from) = 6
                THEN move.from - 8
                ELSE None
    IN  [pc    |-> PlacementAfter(board, move),
         turn  |-> ~board.turn,
         ep    |-> ep2,
         stack |-> Append(board.stack, SavedState(board))]

\* board.pop(): restores the last saved state.  The caller checks that the
\* stack is not empty (popping an empty stack raises IndexError).
pop(board) ==
    LET st == board.stack[Len(board.stack)]
    IN  [pc    |-> st.pc,
         turn  |-> st.turn,
         ep    |-> st.ep,
         stack |-> SubSeq(board.stack, 1, Len(board.stack) - 1)]

\* board.copy() with the turn set: the position seen with `co` to move.
WithTurn(board, co) == [board EXCEPT !.turn = co]

\* Pawn moves python-chess generates from move.from to move.to.
PawnPseudoLegal(board, move) ==
    LET co   == board.turn
        fwd  == IF co THEN 8 ELSE -8
        diff == move.to - move.from
        df   == square_file(move.to) - square_file(move.from)
        dr   == square_rank(move.to) - square_rank(move.from)
        last_rank == square_rank(move.to) \in {0, 7}
        shape ==
            \/ /\ Abs(df) = 1 /\ dr = (IF co THEN 1 ELSE -1)     \* capture
               /\ move.to \in DOMAIN board.pc
               /\ board.pc[move.to].co = ~co
            \/ /\ diff = fwd /\ move.to \notin DOMAIN board.pc   \* single step
            \/ /\ diff = 2 * fwd                                 \* double step
               /\ square_rank(move.from) = (IF co THEN 1 ELSE 6)
               /\ (move.from + fwd) \notin DOMAIN board.pc
               /\ move.to \notin DOMAIN board.pc
        ep_capture ==
            /\ board.ep # None /\ move.to = board.ep
            /\ move.to \notin DOMAIN board.pc
            /\ Abs(df) = 1 /\ dr = (IF co THEN 1 ELSE -1)
            /\ square_rank(move.from) = (IF co THEN 4 ELSE 3)
    IN  \/ shape /\ (last_rank <=> move.promotion # "none")
        \/ ep_capture /\ move.promotion = "none"

\* board.is_pseudo_legal(move), castling aside.
is_pseudo_legal(board, move) ==
    /\ move.from # move.to
    /\ move.from \in DOMAIN board.pc
    /\ board.pc[move.from].co = board.turn
    /\ (move.promotion # "none" =>
            /\ board.pc[move.from].pt = PAWN
            /\ square_rank(move.to) = (IF board.turn THEN 7 ELSE 0))
    /\ ~(move.to \in DOMAIN board.pc /\ board.pc[move.to].co = board.turn)
    /\ IF board.pc[move.from].pt = PAWN
       THEN PawnPseudoLegal(board, move)
       ELSE PieceAttacks(board.pc, move.from, move.to)

\* board.is_into_check(move): the mover's king is attacked once the move is made.
is_into_check(board, move) ==
    LET after == [pc |-> PlacementAfter(board, move), turn |-> board.turn]
        k == king(after, board.turn)
    IN  king(board, board.turn) # None /\ k # None /\ is_attacked_by(after, ~board.turn, k)

\* move in board.legal_moves
in_legal_moves(board, move) ==
    is_pseudo_legal(board, move) /\ ~is_into_check(board, move)

\* board.gives_check(move): push, is_check, pop.
gives_check(board, move) == board_is_check(push(board, move))

----------------------------------------------------------------------------
(* Square names (chess.SQUARE_NAMES, chess.square_name, chess.parse_square). *)

FILE_NAMES == <<"a", "b", "c", "d", "e", "f", "g", "h">>
RANK_NAMES == <<"1", "2", "3", "4", "5", "6", "7", "8">>

SQUARE_NAMES ==
    [sq \in SQUARES |-> <<FILE_NAMES[square_file(sq) + 1], RANK_NAMES[square_rank(sq) + 1]>>]

square_name(sq) == PyStr(SQUARE_NAMES[sq])

\* chess.parse_square(name) is SQUARE_NAMES.index(name): the index of a square
\* name, and ValueError for every other value (an int among them).
parse_square(x) ==
    IF x.ty = "str" /\ \E sq \in SQUARES : SQUARE_NAMES[sq] = x.s
    THEN [exc |-> "", sq |-> CHOOSE sq \in SQUARES : SQUARE_NAMES[sq] = x.s]
    ELSE [exc |-> "ValueError", sq |-> None]

----------------------------------------------------------------------------
(* Check oracle.                                                            *)

THEOCRACY == "theocracy"
BLITZKRIEG == "blitzkrieg"
RAMPAGE == "rampage"
SUBJECTS == "subjects"

is_protected_by_theocracy(board, turn_color) ==
    Cardinality(pieces(board, BISHOP, turn_color)) > 0

\* A variant of the Theocracy check in which a bishop stays a bishop: no
\* phantom queen, so nothing is added to the baseline check.
is_king_attacked_by_theocracy_NoPhantom(board_to_check) ==
    LET king_square == king(board_to_check, board_to_check.turn)
        opponent_color == ~board_to_check.turn
    IN  /\ king_square # None
        /\ pieces(board_to_check, BISHOP, opponent_color) # {}
        /\ is_attacked_by(board_to_check, opponent_color, king_square)

\* Phantom piece: each enemy bishop in turn stands as a queen.
is_king_attacked_by_theocracy(board_to_check) ==
    LET king_square == king(board_to_check, board_to_check.turn)
        opponent_color == ~board_to_check.turn
    IN  /\ king_square # None
        /\ \E bishop_square \in pieces(board_to_check, BISHOP, opponent_color) :
              is_attacked_by(
                  [board_to_check EXCEPT !.pc[bishop_square] = Piece(QUEEN, opponent_color)],
                  opponent_color, king_square)

is_king_attacked_by_blitzkrieg(board_to_check) ==
    LET king_square == king(board_to_check, board_to_check.turn)
        opponent_color == ~board_to_check.turn
    IN  /\ king_square # None
        /\ \E rook_square \in pieces(board_to_check, ROOK, opponent_color) :
              /\ ~\E sq \in between(rook_square, king_square) :
                     /\ IsPiece(piece_at(board_to_check, sq))
                     /\ piece_at(board_to_check, sq).co # opponent_color
              /\ (attackers(board_to_check, opponent_color, king_square)
                      \cap {rook_square}) # {}

\* A variant of is_check in which the immunity bypasses only the two derived
\* checks and leaves the baseline check standing.
is_check_DerivedOnlyImmunity(board, your_skill, opponent_skill) ==
    LET standard_check == board_is_check(board)
        theocracy_check ==
            opponent_skill = THEOCRACY /\ is_king_attacked_by_theocracy(board)
        blitzkrieg_check ==
            opponent_skill = BLITZKRIEG /\ is_king_attacked_by_blitzkrieg(board)
        immunity ==
            your_skill = THEOCRACY /\ is_protected_by_theocracy(board, board.turn)
    IN  standard_check \/ ((theocracy_check \/ blitzkrieg_check) /\ ~immunity)

\* A variant of is_check in which owning a bishop gives the immunity whatever
\* the skill of the side to move.
is_check_ImmunityForAll(board, your_skill, opponent_skill) ==
    LET standard_check == board_is_check(board)
        theocracy_check ==
            opponent_skill = THEOCRACY /\ is_king_attacked_by_theocracy(board)
        blitzkrieg_check ==
            opponent_skill = BLITZKRIEG /\ is_king_attacked_by_blitzkrieg(board)
        immunity == is_protected_by_theocracy(board, board.turn)
    IN  (standard_check \/ theocracy_check \/ blitzkrieg_check) /\ ~immunity

is_check(board, your_skill, opponent_skill) ==
    LET standard_check == board_is_check(board)
        theocracy_check ==
            opponent_skill = THEOCRACY /\ is_king_attacked_by_theocracy(board)
        blitzkrieg_check ==
            opponent_skill = BLITZKRIEG /\ is_king_attacked_by_blitzkrieg(board)
        is_in_check_overall == standard_check \/ theocracy_check \/ blitzkrieg_check
        immunity ==
            your_skill = THEOCRACY /\ is_protected_by_theocracy(board, board.turn)
    IN  is_in_check_overall /\ ~immunity

----------------------------------------------------------------------------
(* Move legality evaluator.                                                 *)

\* A variant of is_path_clear that looks at no square.
is_path_clear_AnyPath(board, from_sq, to_sq) == TRUE

\* A variant of is_path_clear_blitzkrieg in which a piece of either colour
\* closes the path.
is_path_clear_blitzkrieg_EmptyOnly(board, from_sq, to_sq, turn_color) ==
    \A sq \in SeqRange(get_squares_between(from_sq, to_sq)) :
        ~IsPiece(piece_at(board, sq))

is_path_clear(board, from_sq, to_sq) ==
    \A sq \in SeqRange(get_squares_between(from_sq, to_sq)) :
        ~IsPiece(piece_at(board, sq))

is_path_clear_blitzkrieg(board, from_sq, to_sq, turn_color) ==
    \A sq \in SeqRange(get_squares_between(from_sq, to_sq)) :
        ~(IsPiece(piece_at(board, sq)) /\ piece_at(board, sq).co # turn_color)

\* board.push raises AssertionError when the origin square is empty, unless
\* the move is the null move.
PushRaises(board, move) == move.from \notin DOMAIN board.pc /\ ~IsNullMove(move)

\* A variant of is_legal_second_move_no_capture_and_check without the test for
\* check.
is_legal_second_move_NoCheckTest(board, move) ==
    IF is_capture(board, move) THEN [ret |-> FALSE, exc |-> ""]
    ELSE [ret |-> TRUE, exc |-> ""]

\* Result: [ret, exc]; exc is "" unless the call raises.
is_legal_second_move_no_capture_and_check(board, move) ==
    IF is_capture(board, move) THEN [ret |-> FALSE, exc |-> ""]
    ELSE IF PushRaises(board, move) THEN [ret |-> FALSE, exc |-> "AssertionError"]
    ELSE IF gives_check(board, move) THEN [ret |-> FALSE, exc |-> ""]
    ELSE [ret |-> TRUE, exc |-> ""]

check_in_front_of(pawn_sq, piece_sq, pawn_color) ==
    LET pw == parse_square(pawn_sq)
        pi == parse_square(piece_sq)
    IN  IF pw.exc # "" \/ pi.exc # "" THEN FALSE
        ELSE IF square_file(pw.sq) # square_file(pi.sq) THEN FALSE
        ELSE IF pawn_color = WHITE
             THEN square_rank(pi.sq) > square_rank(pw.sq)
             ELSE square_rank(pi.sq) < square_rank(pw.sq)

\* from_sq and to_sq are Python values; the function parses them as square
\* names before anything else.  Result: [ret, exc].
is_movable_under_subjects(board, your_skill, opponent_skill, from_sq, to_sq, turn_color) ==
    LET pf == parse_square(from_sq)
        pt == parse_square(to_sq)
        move == Move(pf.sq, pt.sq)
        moving_piece == piece_at(board, pf.sq)
        enemy_color == ~turn_color
        subjects_skill_applying_pawn_squares ==
            { pawn_square_index \in pieces(board, PAWN, enemy_color) :
                check_in_front_of(square_name(pawn_square_index), from_sq, enemy_color) }
    IN  IF pf.exc # "" \/ pt.exc # "" THEN [ret |-> FALSE, exc |-> "ValueError"]
        ELSE IF ~IsPiece(moving_piece) THEN [ret |-> TRUE, exc |-> ""]
        ELSE IF moving_piece.pt = KING /\ is_check(board, your_skill, opponent_skill)
             THEN [ret |-> TRUE, exc |-> ""]
        ELSE IF subjects_skill_applying_pawn_squares = {} THEN [ret |-> TRUE, exc |-> ""]
        ELSE [ret |-> is_capture(board, move)
                        /\ pt.sq \in subjects_skill_applying_pawn_squares,
              exc |-> ""]

is_promotion(board, from_sq, to_sq) ==
    LET piece == piece_at(board, from_sq)
    IN  /\ IsPiece(piece) /\ piece.pt = PAWN
        /\ \/ piece.co = WHITE /\ square_rank(to_sq) = 7
           \/ piece.co = BLACK /\ square_rank(to_sq) = 0

\* A variant of step 0 in which the Blitzkrieg bonus move may be made by any
\* rook of the side to move, the one on the anchor square included.
SecondMoveStep_AnyRook(game, board, move, your_skill) ==
    IF your_skill = RAMPAGE
    THEN IF RAMPAGE \notin DOMAIN game.data
         THEN [done |-> TRUE, ret |-> FALSE, exc |-> "KeyError"]
         ELSE IF move.from # game.data[RAMPAGE]
         THEN [done |-> TRUE, ret |-> FALSE, exc |-> ""]
         ELSE LET r == is_legal_second_move_no_capture_and_check(board, move)
              IN  [done |-> TRUE, ret |-> r.ret, exc |-> r.exc]
    ELSE IF your_skill = BLITZKRIEG
    THEN LET rook_position == pieces(board, ROOK, board.turn)
         IN  IF Cardinality(rook_position) < 2
             THEN [done |-> TRUE, ret |-> FALSE, exc |-> ""]
             ELSE IF move.from \notin rook_position
             THEN [done |-> TRUE, ret |-> FALSE, exc |-> ""]
             ELSE [done |-> FALSE, ret |-> FALSE, exc |-> ""]
    ELSE [done |-> TRUE, ret |-> FALSE, exc |-> ""]

\* Step 0 of is_move_legal, the bonus ("second") move.  Result:
\* [done, ret, exc]: done means is_move_legal returns ret (or raises exc)
\* here; otherwise the evaluation goes on with the primary branch.
SecondMoveStep(game, board, move, your_skill) ==
    IF your_skill = RAMPAGE
    THEN IF RAMPAGE \notin DOMAIN game.data
         THEN [done |-> TRUE, ret |-> FALSE, exc |-> "KeyError"]
         ELSE IF move.from # game.data[RAMPAGE]
         THEN [done |-> TRUE, ret |-> FALSE, exc |-> ""]
         ELSE LET r == is_legal_second_move_no_capture_and_check(board, move)
              IN  [done |-> TRUE, ret |-> r.ret, exc |-> r.exc]
    ELSE IF your_skill = BLITZKRIEG
    THEN LET rook_position == pieces(board, ROOK, board.turn)
         IN  IF Cardinality(rook_position) < 2
             THEN [done |-> TRUE, ret |-> FALSE, exc |-> ""]
             ELSE IF \/ BLITZKRIEG \notin DOMAIN game.data
                     \/ game.data[BLITZKRIEG] \notin rook_position
             THEN [done |-> TRUE, ret |-> FALSE, exc |-> ""]
             ELSE IF move.from # SetMin(rook_position \ {game.data[BLITZKRIEG]})
             THEN [done |-> TRUE, ret |-> FALSE, exc |-> ""]
             ELSE [done |-> FALSE, ret |-> FALSE, exc |-> ""]
    ELSE [done |-> TRUE, ret |-> FALSE, exc |-> ""]

\* A variant of step 1 in which every move of a piece has a basis.
HasBasis_AnyPieceMove(board, move, your_skill) ==
    IsPiece(piece_at(board, move.from))

\* Step 1: the basis for legality, standard or granted by a skill.
HasBasis(board, move, your_skill) ==
    LET is_standard_legal == in_legal_moves(board, move)
        moving_piece == piece_at(board, move.from)
        is_custom_legal ==
            /\ ~is_standard_legal /\ IsPiece(moving_piece)
            /\ IF your_skill = THEOCRACY /\ moving_piece.pt = BISHOP
               THEN /\ is_queen_like_move(move.from, move.to)
                    /\ is_path_clear(board, move.from, move.to)
               ELSE IF your_skill = BLITZKRIEG /\ moving_piece.pt = ROOK
               THEN is_path_clear_blitzkrieg(board, move.from, move.to, board.turn)
               ELSE FALSE
    IN  is_standard_legal \/ is_custom_legal

\* A variant of step 2 that never finds a piece of the side to move on the
\* target square.
SameColorBlock_Never(board, move) == FALSE

\* Step 2: a piece of the side to move stands on the target square.
SameColorBlock(board, move) ==
    LET target_piece == piece_at(board, move.to)
    IN  IsPiece(target_piece) /\ target_piece.co = board.turn

\* Step 2: a king stands on the target square and the side not to move owns a
\* bishop.
KingCaptureBlock(board, move) ==
    LET target_piece == piece_at(board, move.to)
    IN  /\ IsPiece(target_piece) /\ target_piece.pt = KING
        /\ is_protected_by_theocracy(board, ~board.turn)

\* A variant of step 3 that pushes and pops without testing for check.
SelfCheckStep_NoTest(board, move, your_skill, opponent_skill) ==
    [ret |-> TRUE, exc |-> "", board |-> pop(push(board, move))]

\* Step 3: push the move, test the mover for check, pop.  The rejecting path
\* pops before returning and the finally clause pops again.
\* Result: [ret, exc, board].
SelfCheckStep(board, move, your_skill, opponent_skill) ==
    LET pushed == push(board, move)
        board_after_move == WithTurn(pushed, ~pushed.turn)
        popped == pop(pushed)
    IN  IF is_check(board_after_move, your_skill, opponent_skill)
        THEN IF Len(popped.stack) = 0
             THEN [ret |-> FALSE, exc |-> "IndexError", board |-> popped]
             ELSE [ret |-> FALSE, exc |-> "", board |-> pop(popped)]
        ELSE [ret |-> TRUE, exc |-> "", board |-> popped]

\* Step 3 from the line after board.push(move) on, on the board as it is when
\* the evaluation goes on: the test for check, then the pops.
\* Result: [ret, exc, board].
SelfCheckTail(pushed, your_skill, opponent_skill) ==
    IF Len(pushed.stack) = 0
    THEN [ret |-> FALSE, exc |-> "IndexError", board |-> pushed]
    ELSE IF is_check(WithTurn(pushed, ~pushed.turn), your_skill, opponent_skill)
    THEN IF Len(pop(pushed).stack) = 0
         THEN [ret |-> FALSE, exc |-> "IndexError", board |-> pop(pushed)]
         ELSE [ret |-> FALSE, exc |-> "", board |-> pop(pop(pushed))]
    ELSE [ret |-> TRUE, exc |-> "", board |-> pop(pushed)]

\* Steps 2 (Subjects) and 3, given what is_movable_under_subjects did.
SubjectsStep(board, move, your_skill, opponent_skill, subj) ==
    IF subj.exc # "" THEN [ret |-> FALSE, exc |-> subj.exc, board |-> board]
    ELSE IF ~subj.ret THEN [ret |-> FALSE, exc |-> "", board |-> board]
    ELSE SelfCheckStep(board, move, your_skill, opponent_skill)

\* The primary branch of is_move_legal: steps 1 to 3.
PrimaryBranch(board, move, your_skill, opponent_skill) ==
    IF ~HasBasis(board, move, your_skill)
    THEN [ret |-> FALSE, exc |-> "", board |-> board]
    ELSE IF SameColorBlock(board, move)
    THEN [ret |-> FALSE, exc |-> "", board |-> board]
    ELSE IF KingCaptureBlock(board, move)
    THEN [ret |-> FALSE, exc |-> "", board |-> board]
    ELSE IF opponent_skill = SUBJECTS
    THEN SubjectsStep(board, move, your_skill, opponent_skill,
                      is_movable_under_subjects(board, your_skill, opponent_skill,
                          PyInt(move.from), PyInt(move.to), board.turn))
    ELSE SelfCheckStep(board, move, your_skill, opponent_skill)

\* What is_move_legal does after step 0 has given s0.
AfterSecondMoveStep(board, move, your_skill, opponent_skill, second_move, s0) ==
    IF second_move /\ s0.done
    THEN [ret |-> s0.ret, exc |-> s0.exc, board |-> board]
    ELSE PrimaryBranch(board, move, your_skill, opponent_skill)

\* is_move_legal(game, board, move, your_skill, opponent_skill, second_move=...).
\* Result: [ret, exc, board]: the value returned, the exception raised ("" if
\* none) and the board as the call leaves it.
is_move_legal(game, board, move, your_skill, opponent_skill, second_move) ==
    AfterSecondMoveStep(board, move, your_skill, opponent_skill, second_move,
                        SecondMoveStep(game, board, move, your_skill))

----------------------------------------------------------------------------
(* Checkmate oracle.                                                        *)

\* The (origin, destination) pairs is_checkmate tries, numbered in the order
\* of its two loops.
PairIndex(from_sq, to_sq) == from_sq * (BoardWidth * BoardWidth) + to_sq
PairMove(k) == Move(k \div (BoardWidth * BoardWidth), k % (BoardWidth * BoardWidth))

\* A call of is_move_legal in the loop that ends the loop (a legal move, a
\* raise) or leaves the board changed.
Eventful(board, r) == r.ret \/ r.exc # "" \/ r.board # board

\* The loop of is_checkmate from pair number `start` on, on the board as the
\* calls made so far have left it.  Result: [ret, exc, board].
RECURSIVE MateScan(_, _, _, _, _, _)

\* The loop at pair k, whose call of is_move_legal gave r.
MateEvent(game, my_piece_squares, your_skill, opponent_skill, k, r) ==
    IF r.exc # "" THEN [ret |-> FALSE, exc |-> r.exc, board |-> r.board]
    ELSE IF r.ret THEN [ret |-> FALSE, exc |-> "", board |-> r.board]
    ELSE MateScan(game, r.board, my_piece_squares, your_skill, opponent_skill, k + 1)

\* The loop up to its first eventful pair, the least of `events`.
MateNext(game, board, my_piece_squares, your_skill, opponent_skill, events) ==
    IF events = {} THEN [ret |-> TRUE, exc |-> "", board |-> board]
    ELSE MateEvent(game, my_piece_squares, your_skill, opponent_skill, SetMin(events),
                   is_move_legal(game, board, PairMove(SetMin(events)),
                                 your_skill, opponent_skill, FALSE))

MateScan(game, board, my_piece_squares, your_skill, opponent_skill, start) ==
    MateNext(game, board, my_piece_squares, your_skill, opponent_skill,
             { k \in { PairIndex(f, t) : f \in my_piece_squares, t \in SQUARES } :
                 /\ k >= start
                 /\ PairMove(k).from # PairMove(k).to
                 /\ Eventful(board, is_move_legal(game, board, PairMove(k),
                                                  your_skill, opponent_skill, FALSE)) })

\* is_checkmate(game, board, your_skill, opponent_skill).
\* Result: [ret, exc, board].
is_checkmate(game, board, your_skill, opponent_skill) ==
    IF ~is_check(board, your_skill, opponent_skill)
    THEN [ret |-> FALSE, exc |-> "", board |-> board]
    ELSE MateScan(game, board,
                  { sq \in DOMAIN board.pc : board.pc[sq].co = board.turn },
                  your_skill, opponent_skill, 0)

----------------------------------------------------------------------------
(* Usage counters and bonus moves.                                          *)

color_key(turn_color) == IF Truthy(turn_color) THEN "white" ELSE "black"

\* The three counter functions first create the skill's entry if missing.
EnsureSkill(gameData, skill_name) ==
    IF skill_name \in DOMAIN gameData.counts THEN gameData
    ELSE [gameData EXCEPT !.counts = @ @@ (skill_name :> [white |-> 0, black |-> 0])]

increment_skill_count(gameData, skill_name, turn_color) ==
    LET g == EnsureSkill(gameData, skill_name)
    IN  [g EXCEPT !.counts[skill_name][color_key(turn_color)] = @ + 1]

\* The value get_skill_count returns; its effect on gameData is EnsureSkill.
get_skill_count(gameData, skill_name, turn_color) ==
    EnsureSkill(gameData, skill_name).counts[skill_name][color_key(turn_color)]

reset_skill_count(gameData, skill_name, turn_color) ==
    LET g == EnsureSkill(gameData, skill_name)
    IN  [g EXCEPT !.counts[skill_name][color_key(turn_color)] = 0]

\* A variant of check_extra_move in which Rampage rewards every knight move,
\* capture or not.
check_extra_move_AnyKnightMove(game, board, move, your_skill, opponent_skill) ==
    LET g == EnsureSkill(game, your_skill)
        moving_piece == piece_at(board, move.from)
    IN  IF your_skill = RAMPAGE
        THEN [game |-> g,
              granted |->
                 /\ ~(get_skill_count(game, your_skill, PyBool(board.turn)) > 0)
                 /\ IsPiece(moving_piece) /\ moving_piece.pt = KNIGHT]
        ELSE IF your_skill = BLITZKRIEG
        THEN [game |-> g,
              granted |->
                 /\ ~(get_skill_count(game, your_skill, PyBool(board.turn)) > 0)
                 /\ ~(Cardinality(pieces(board, ROOK, board.turn)) < 2)
                 /\ IsPiece(moving_piece) /\ moving_piece.pt = ROOK
                 /\ ~is_capture(board, move)
                 /\ ~is_check(push(board, move), your_skill, opponent_skill)]
        ELSE [game |-> game, granted |-> FALSE]

\* check_extra_move(game, board, move, your_skill, opponent_skill).
\* Result: [granted, game]; the board is pushed and popped once, so unchanged.
check_extra_move(game, board, move, your_skill, opponent_skill) ==
    LET g == EnsureSkill(game, your_skill)
        moving_piece == piece_at(board, move.from)
    IN  IF your_skill = RAMPAGE
        THEN [game |-> g,
              granted |->
                 /\ ~(get_skill_count(game, your_skill, PyBool(board.turn)) > 0)
                 /\ IsPiece(moving_piece) /\ moving_piece.pt = KNIGHT
                 /\ is_capture(board, move)]
        ELSE IF your_skill = BLITZKRIEG
        THEN [game |-> g,
              granted |->
                 /\ ~(get_skill_count(game, your_skill, PyBool(board.turn)) > 0)
                 /\ ~(Cardinality(pieces(board, ROOK, board.turn)) < 2)
                 /\ IsPiece(moving_piece) /\ moving_piece.pt = ROOK
                 /\ ~is_capture(board, move)
                 /\ ~is_check(push(board, move), your_skill, opponent_skill)]
        ELSE [game |-> game, granted |-> FALSE]

----------------------------------------------------------------------------
(* Rooms.                                                                   *)

BoardNone == [none |-> TRUE]
IsNoneBoard(board) == "none" \in DOMAIN board

BackRank == <<ROOK, KNIGHT, BISHOP, QUEEN, KING, BISHOP, KNIGHT, ROOK>>

\* chess.Board(): the standard initial position, white to move, empty stack.
StartBoard ==
    [pc |-> [sq \in (0 .. 15) \cup (48 .. 63) |->
                IF square_rank(sq) = 0 THEN Piece(BackRank[square_file(sq) + 1], WHITE)
                ELSE IF square_rank(sq) = 1 THEN Piece(PAWN, WHITE)
                ELSE IF square_rank(sq) = 6 THEN Piece(PAWN, BLACK)
                ELSE Piece(BackRank[square_file(sq) + 1], BLACK)],
     turn |-> WHITE,
     ep |-> None,
     stack |-> << >>]

ColorOf(color_key_) == color_key_ = "white"

\* A variant of apply_skills_before_start that takes the queen of the colour
\* facing a Theocracy player.
apply_skills_OtherQueen(board, skills) ==
    [board EXCEPT !.pc =
        [sq \in { s \in DOMAIN board.pc :
                    ~(/\ board.pc[s].pt = QUEEN
                      /\ \E ck \in DOMAIN skills :
                            skills[ck] = THEOCRACY /\ board.pc[s].co # ColorOf(ck)) }
            |-> board.pc[sq]]]

apply_skills_before_start(board, skills) ==
    [board EXCEPT !.pc =
        [sq \in { s \in DOMAIN board.pc :
                    ~(/\ board.pc[s].pt = QUEEN
                      /\ \E ck \in DOMAIN skills :
                            skills[ck] = THEOCRACY /\ board.pc[s].co = ColorOf(ck)) }
            |-> board.pc[sq]]]

NewRoom ==
    [board |-> BoardNone, turn |-> "w", players |-> << >>, skills |-> << >>,
     data |-> << >>, counts |-> << >>]

\* on_join(data): the room dictionary after the handler.
on_join(gs, room, sid, skill) ==
    LET gs1  == IF room \in DOMAIN gs THEN gs ELSE gs @@ (room :> NewRoom)
        game == gs1[room]
        n    == Cardinality(DOMAIN game.players)
        color == IF n = 0 THEN "white" ELSE "black"
        g1 == [game EXCEPT !.players = @ @@ (color :> sid),
                           !.skills = @ @@ (color :> skill)]
        g2 == IF Cardinality(DOMAIN g1.players) = 2
              THEN [g1 EXCEPT !.board = apply_skills_before_start(StartBoard, g1.skills),
                              !.turn = "w"]
              ELSE g1
    IN  IF n < 2 THEN [gs1 EXCEPT ![room] = g2] ELSE gs1

\* The colour under which a socket id is registered in the room (the first
\* match in insertion order), or "" if it is not a player.
PlayerColor(game, sid) ==
    IF "white" \in DOMAIN game.players /\ game.players["white"] = sid THEN "white"
    ELSE IF "black" \in DOMAIN game.players /\ game.players["black"] = sid THEN "black"
    ELSE ""

OtherColor(ck) == IF ck = "white" THEN "black" ELSE "white"

\* What a handler run is observed to do; the squares are those of the move
\* when the handler has pushed it on the room's board (moved).
Obs(op, sid, color, from_sq, to_sq, out, exc, second, granted, moved) ==
    [op |-> op, sid |-> sid, color |-> color, from |-> from_sq, to |-> to_sq,
     out |-> out, exc |-> exc, second |-> second, granted |-> granted, moved |-> moved]

\* The end of on_make_move: game is the room after the turn and counter
\* updates, cm what is_checkmate did.  Result: [games, obs].
Conclude(gs, room, game, ob, cm) ==
    IF cm.exc # ""
    THEN [games |-> [gs EXCEPT ![room] = [game EXCEPT !.board = cm.board]],
          obs |-> [ob EXCEPT !.out = "raised", !.exc = cm.exc]]
    ELSE IF cm.ret
    THEN [games |-> [r \in DOMAIN gs \ {room} |-> gs[r]],
          obs |-> [ob EXCEPT !.out = "game_over"]]
    ELSE [games |-> [gs EXCEPT ![room] = [game EXCEPT !.board = cm.board]],
          obs |-> [ob EXCEPT !.out = "accepted"]]

\* The push and the turn and counter updates of on_make_move, given the room
\* as check_extra_move left it and the bonus decision.
TurnUpdate(game, color, move, your_skill, granted) ==
    IF granted
    THEN [(IF your_skill \in {RAMPAGE, BLITZKRIEG}
           THEN increment_skill_count(game, your_skill, PyStr(color))
           ELSE game)
          EXCEPT !.board = [push(game.board, move) EXCEPT !.turn = game.board.turn],
                 !.data = IF your_skill \in {RAMPAGE, BLITZKRIEG}
                          THEN [k \in DOMAIN @ \cup {your_skill} |->
                                  IF k = your_skill THEN move.to ELSE @[k]]
                          ELSE @]
    ELSE [(IF your_skill \in {RAMPAGE, BLITZKRIEG}
           THEN reset_skill_count(game, your_skill, PyStr(color))
           ELSE game)
          EXCEPT !.board = push(game.board, move),
                 !.turn = IF @ = "w" THEN "b" ELSE "w"]

\* The checkmate test on the updated room.
MateTest(gs, room, game, ob, your_skill, opponent_skill) ==
    Conclude(gs, room, game, ob, is_checkmate(game, game.board, opponent_skill, your_skill))

\* x is what check_extra_move returned.
Granting(gs, room, sid, color, move, your_skill, opponent_skill, second, x) ==
    MateTest(gs, room, TurnUpdate(x.game, color, move, your_skill, x.granted),
             Obs("make_move", sid, color, move.from, move.to, "", "", second, x.granted, TRUE),
             your_skill, opponent_skill)

\* The part of on_make_move after is_move_legal has accepted the move: the
\* bonus decision, the push, the turn and counter updates and the checkmate
\* test.  Result: [games, obs].
AcceptMove(gs, room, game, sid, color, move, your_skill, opponent_skill, second) ==
    Granting(gs, room, sid, color, move, your_skill, opponent_skill, second,
             check_extra_move(game, game.board, move, your_skill, opponent_skill))

\* on_make_move once is_move_legal has been called on room g1 with result r.
Judged(gs, room, g1, sid, color, move, your_skill, opponent_skill, second, r) ==
    IF r.exc # "" \/ ~r.ret \/ move.promotion # "none"
    THEN [games |-> [gs EXCEPT ![room] = [g1 EXCEPT !.board = r.board]],
          obs |-> Obs("make_move", sid, color, None, None,
                      IF r.exc = "" /\ ~r.ret THEN "rejected" ELSE "raised",
                      IF r.exc # "" THEN r.exc
                      ELSE IF ~r.ret THEN "" ELSE "AttributeError",
                      second, FALSE, FALSE)]
    ELSE AcceptMove(gs, room, [g1 EXCEPT !.board = r.board], sid, color, move,
                    your_skill, opponent_skill, second)

\* on_make_move from the call of is_move_legal on.
Judging(gs, room, g1, sid, color, move, your_skill, opponent_skill, second) ==
    Judged(gs, room, g1, sid, color, move, your_skill, opponent_skill, second,
           is_move_legal(g1, g1.board, move, your_skill, opponent_skill, second))

\* on_make_move once both square names are parsed.
Parsed(gs, room, game, sid, color, your_skill, opponent_skill, from_sq, to_sq) ==
    Judging(gs, room, EnsureSkill(game, your_skill), sid, color,
            [from |-> from_sq, to |-> to_sq,
             promotion |-> IF is_promotion(game.board, from_sq, to_sq)
                           THEN QUEEN ELSE "none"],
            your_skill, opponent_skill,
            get_skill_count(game, your_skill, PyStr(color)) > 0)

\* A variant of on_make_move without the test of the turn: a request of
\* either player goes on to the legality evaluation.
on_make_move_NoTurnTest(gs, room, sid, from_name, to_name) ==
    LET game  == gs[room]
        color == PlayerColor(game, sid)
        opponent_color == IF game.turn = "w" THEN "black" ELSE "white"
        quiet(c, out, exc) ==
            [games |-> gs,
             obs |-> Obs("make_move", sid, c, None, None, out, exc, FALSE, FALSE, FALSE)]
    IN  IF room \notin DOMAIN gs THEN quiet("", "no_room", "")
        ELSE IF color = "" THEN quiet(color, "not_player", "")
        ELSE IF opponent_color \notin DOMAIN game.skills THEN quiet(color, "raised", "KeyError")
        ELSE IF parse_square(from_name).exc # "" \/ parse_square(to_name).exc # ""
        THEN quiet(color, "raised", "ValueError")
        ELSE Parsed(gs, room, game, sid, color, game.skills[color],
                    game.skills[opponent_color],
                    parse_square(from_name).sq, parse_square(to_name).sq)

\* on_make_move(data) for a request from socket `sid` naming the squares
\* from_name and to_name.  Result: [games, obs].
on_make_move(gs, room, sid, from_name, to_name) ==
    LET game  == gs[room]
        color == PlayerColor(game, sid)
        turn_color == IF game.turn = "w" THEN "white" ELSE "black"
        opponent_color == IF game.turn = "w" THEN "black" ELSE "white"
        quiet(c, out, exc) ==
            [games |-> gs,
             obs |-> Obs("make_move", sid, c, None, None, out, exc, FALSE, FALSE, FALSE)]
    IN  IF room \notin DOMAIN gs THEN quiet("", "no_room", "")
        ELSE IF color = "" THEN quiet(color, "not_player", "")
        ELSE IF opponent_color \notin DOMAIN game.skills THEN quiet(color, "raised", "KeyError")
        ELSE IF color # turn_color THEN quiet(color, "not_your_turn", "")
        ELSE IF parse_square(from_name).exc # "" \/ parse_square(to_name).exc # ""
        THEN quiet(color, "raised", "ValueError")
        ELSE Parsed(gs, room, game, sid, color, game.skills[color],
                    game.skills[opponent_color],
                    parse_square(from_name).sq, parse_square(to_name).sq)

\* on_resign(data).  Result: [games, obs].
on_resign(gs, room, sid) ==
    LET game   == gs[room]
        loser  == PlayerColor(game, sid)
        winner == OtherColor(loser)
        ob(color, out, exc) ==
            Obs("resign", sid, color, None, None, out, exc, FALSE, FALSE, FALSE)
    IN  IF room \notin DOMAIN gs THEN [games |-> gs, obs |-> ob("", "no_room", "")]
        ELSE IF loser = "" THEN [games |-> gs, obs |-> ob("", "not_player", "")]
        ELSE IF winner \notin DOMAIN game.players
        THEN [games |-> gs, obs |-> ob(loser, "raised", "KeyError")]
        ELSE [games |-> [r \in DOMAIN gs \ {room} |-> gs[r]],
              obs |-> ob(loser, "game_over", "")]

----------------------------------------------------------------------------
(* Revival of a captured piece.                                             *)

\* ORIGINAL_SQUARES[color][piece_type] for rooks and knights: the two home
\* squares, in the order in which the loop tries them.
ORIGINAL_SQUARES(color, piece_type) ==
    IF piece_type = ROOK
    THEN (IF color = WHITE THEN <<square(0, 0), square(7, 0)>>
                           ELSE <<square(0, 7), square(7, 7)>>)
    ELSE (IF color = WHITE THEN <<square(1, 0), square(6, 0)>>
                           ELSE <<square(1, 7), square(6, 7)>>)

\* ORIGINAL_SQUARES[color]['BISHOP_SQUARES']: f1 and c1 for White, c8 and f8
\* for Black.
BISHOP_SQUARES(color) ==
    IF color = WHITE THEN [LIGHT |-> square(5, 0), DARK |-> square(2, 0)]
                     ELSE [LIGHT |-> square(2, 7), DARK |-> square(5, 7)]

get_square_color(sq) ==
    IF (square_file(sq) + square_rank(sq)) % 2 = 0 THEN "LIGHT" ELSE "DARK"

\* game.get('revive', {}).get(color_key, False)
revive_flag(game, ck) == IF "revive" \in DOMAIN game THEN game.revive[ck] ELSE FALSE

\* The squares on which the loop may put the piece back.
revival_squares(captured_piece, captured_on_square) ==
    IF captured_piece.pt \in {KNIGHT, ROOK}
    THEN ORIGINAL_SQUARES(captured_piece.co, captured_piece.pt)
    ELSE << BISHOP_SQUARES(captured_piece.co)[get_square_color(captured_on_square)] >>

\* The loop over revival_squares: the piece goes on the first empty one and
\* the flag of its colour is set.  Result: [board, game, on], on the square
\* the piece was put on, None if none.
Revived(board, game, captured_piece, squares) ==
    LET empty == { i \in DOMAIN squares : ~IsPiece(piece_at(board, squares[i])) }
        sq == squares[SetMin(empty)]
        g1 == IF "revive" \in DOMAIN game THEN game
              ELSE game @@ [revive |-> [white |-> FALSE, black |-> FALSE]]
    IN  IF empty = {} THEN [board |-> board, game |-> game, on |-> None]
        ELSE [board |-> [board EXCEPT !.pc = (sq :> captured_piece) @@ @],
              game |-> [g1 EXCEPT !.revive[color_key(PyBool(captured_piece.co))] = TRUE],
              on |-> sq]

\* A variant of handle_revive_skill that does not look at the revival flag.
handle_revive_skill_NoFlagTest(board, captured_piece, captured_on_square, game) ==
    IF ~IsPiece(captured_piece) THEN [board |-> board, game |-> game, on |-> None]
    ELSE IF captured_piece.pt \notin {KNIGHT, BISHOP, ROOK}
    THEN [board |-> board, game |-> game, on |-> None]
    ELSE Revived(board, game, captured_piece,
                 revival_squares(captured_piece, captured_on_square))

\* handle_revive_skill(board, captured_piece, captured_on_square, game); the
\* absent piece (None) is NoPiece.  Result: [board, game, on].
handle_revive_skill(board, captured_piece, captured_on_square, game) ==
    IF ~IsPiece(captured_piece) THEN [board |-> board, game |-> game, on |-> None]
    ELSE IF revive_flag(game, color_key(PyBool(captured_piece.co)))
    THEN [board |-> board, game |-> game, on |-> None]
    ELSE IF captured_piece.pt \notin {KNIGHT, BISHOP, ROOK}
    THEN [board |-> board, game |-> game, on |-> None]
    ELSE Revived(board, game, captured_piece,
                 revival_squares(captured_piece, captured_on_square))

----------------------------------------------------------------------------
(* The room as a state machine.                                             *)

Room == "room1"
Sids == {"sid1", "sid2"}

MaxMoves == 4      \* moves pushed in a behaviour that starts with an empty room table

Start == Obs("start", "", "", None, None, "", "", FALSE, FALSE, FALSE)

Init ==
    /\ games = << >>
    /\ last = Start
    /\ log = << >>
    /\ budget = MaxMoves
    /\ running = << >>
    /\ backend = << >>

Join(sid, skill) ==
    /\ games' = on_join(games, Room, sid, skill)
    /\ games' # games
    /\ last' = Obs("join", sid, "", None, None, skill, "", FALSE, FALSE, FALSE)
    /\ log' = << >>
    /\ UNCHANGED <<budget, running, backend>>

MakeMove(sid, from_sq, to_sq) ==
    /\ budget > 0
    /\ \E h \in { on_make_move(games, Room, sid, square_name(from_sq), square_name(to_sq)) } :
          /\ games' = h.games
          /\ last' = h.obs
          /\ log' = IF h.obs.moved THEN Append(log, h.obs.color) ELSE log
          /\ budget' = IF h.obs.moved THEN budget - 1 ELSE budget
    /\ UNCHANGED <<running, backend>>

Resign(sid) ==
    LET h == on_resign(games, Room, sid)
    IN  /\ games' = h.games
        /\ last' = h.obs
        /\ UNCHANGED <<log, budget, running, backend>>

A1 == square(0, 0)
F1 == square(5, 0)
B5 == square(1, 4)
B3 == square(1, 2)
A7 == square(0, 6)
H1 == square(7, 0)
D1 == square(3, 0)
E2 == square(4, 1)
D2 == square(3, 1)
A2 == square(0, 1)
A3 == square(0, 2)
D3 == square(3, 2)
H3 == square(7, 2)
E4 == square(4, 3)
D4 == square(3, 3)
H5 == square(7, 4)
A5 == square(0, 4)
D5 == square(3, 4)
F5 == square(5, 4)
A6 == square(0, 5)
E6 == square(4, 5)
H6 == square(7, 5)
D7 == square(3, 6)
E7 == square(4, 6)
F7 == square(5, 6)
A8 == square(0, 7)
E8 == square(4, 7)
H8 == square(7, 7)
G1 == square(6, 0)
F3 == square(5, 2)
E5 == square(4, 4)
D6 == square(3, 5)
F6 == square(5, 5)
G8 == square(6, 7)
E1 == square(4, 0)
F2 == square(5, 1)
G3 == square(6, 2)
A4 == square(0, 3)
H4 == square(7, 3)
G6 == square(6, 5)
B7 == square(1, 6)
G7 == square(6, 6)
H7 == square(7, 6)
F8 == square(5, 7)
G4 == square(6, 3)
B4 == square(1, 3)
B2 == square(1, 1)
G2 == square(6, 1)
H2 == square(7, 1)
E3 == square(4, 2)
B6 == square(1, 5)
B8 == square(1, 7)

\* The skills and move requests the clients send in the explored games.
JoinSkills == {"none", BLITZKRIEG, THEOCRACY, SUBJECTS}
Script == { <<E2, E4>>, <<F7, F5>>, <<D7, D5>>, <<D1, H5>>, <<A8, A6>>, <<H8, H6>>,
            <<A6, A5>>, <<A1, E8>> }

Next ==
    \/ \E sid \in Sids, skill \in JoinSkills : Join(sid, skill)
    \/ \E sid \in Sids, m \in Script : MakeMove(sid, m[1], m[2])
    \/ \E sid \in Sids : Resign(sid)

Spec == Init /\ [][Next]_vars

----------------------------------------------------------------------------
(* Games in progress: the room after both players joined and the requests   *)
(* of an opening line were handled, then every request on that position.    *)

\* One request handled on a <<games, last, log>> record.
Logged(st, h) ==
    [games |-> h.games, last |-> h.obs,
     log |-> IF h.obs.moved THEN Append(st.log, h.obs.color) ELSE st.log]

Handled(st, sid, from_sq, to_sq) ==
    Logged(st, on_make_move(st.games, Room, sid, square_name(from_sq), square_name(to_sq)))

RECURSIVE Replay(_, _)
Replay(st, reqs) ==
    IF reqs = << >> THEN st
    ELSE Replay(Handled(st, reqs[1][1], reqs[1][2], reqs[1][3]), Tail(reqs))

Joined(white_skill, black_skill) ==
    [games |-> on_join(on_join(<< >>, Room, "sid1", white_skill), Room, "sid2", black_skill),
     last |-> Start, log |-> << >>]

\* Two clients have joined with any pair of skills; then the scripted requests.
InitPlay ==
    /\ \E white_skill \in JoinSkills, black_skill \in JoinSkills :
          games = Joined(white_skill, black_skill).games
    /\ last = Start
    /\ log = << >>
    /\ budget = MaxMoves
    /\ running = << >>
    /\ backend = << >>

\* The script and captures, a bishop sortie and a rook jump that captures.
PlayScript ==
    Script \cup { <<E4, F5>>, <<H5, F5>>, <<F1, B5>>, <<B5, B3>>, <<A1, A7>> }

NextPlay == \E sid \in Sids, m \in PlayScript : MakeMove(sid, m[1], m[2])

SpecPlay == InitPlay /\ [][NextPlay]_vars

\* Games with Rampage: two clients have joined, each with Rampage, Theocracy or
\* no skill; the requests bring a knight of either colour to a capture and
\* then try bonus moves from the square it captured on.
BonusSkills == {"none", RAMPAGE, THEOCRACY}

BonusScript ==
    { <<G1, F3>>, <<E7, E5>>, <<F3, E5>>, <<E5, F3>>, <<E5, D7>>, <<E5, D6>>, <<E5, E6>>,
      <<E2, E4>>, <<G8, F6>>, <<F6, E4>>, <<E4, F6>>, <<E4, D2>>, <<F6, G8>> }

InitBonus ==
    /\ \E white_skill \in BonusSkills, black_skill \in BonusSkills :
          games = Joined(white_skill, black_skill).games
    /\ last = Start
    /\ log = << >>
    /\ budget = MaxMoves
    /\ running = << >>
    /\ backend = << >>

NextBonus == \E sid \in Sids, m \in BonusScript : MakeMove(sid, m[1], m[2])

SpecBonus == InitBonus /\ [][NextBonus]_vars

\* Games with calls of handle_revive_skill: between the moves of a game the
\* function is called on the room's board and the room, for a captured piece
\* of either colour and any type (or none) and a square it was captured on.
ReviveSkills == {"none", BLITZKRIEG}

ReviveScript ==
    { <<G1, F3>>, <<E2, E4>>, <<F1, B5>>, <<A1, A3>>,
      <<G8, F6>>, <<E7, E5>>, <<F8, B4>>, <<A8, A6>> }

CapturedPieces ==
    {NoPiece} \cup { Piece(pt, co) : pt \in {PAWN, KNIGHT, BISHOP, ROOK, QUEEN},
                                     co \in {WHITE, BLACK} }

\* One square of each parity of file plus rank.
CapturedOn == {D4, E4}

InitRevive ==
    /\ \E white_skill \in ReviveSkills, black_skill \in ReviveSkills :
          games = Joined(white_skill, black_skill).games
    /\ last = Start
    /\ log = << >>
    /\ budget = MaxMoves
    /\ running = << >>
    /\ backend = << >>

ReviveCall(captured_piece, captured_on_square) ==
    /\ Room \in DOMAIN games
    /\ \E r \in { handle_revive_skill(games[Room].board, captured_piece,
                                      captured_on_square, games[Room]) } :
          /\ games' = [games EXCEPT ![Room] = [r.game EXCEPT !.board = r.board]]
          /\ last' = Obs("revive", "", color_key(PyBool(captured_piece.co)),
                         captured_on_square, r.on, captured_piece.pt, "",
                         FALSE, r.on # None, FALSE)
    /\ UNCHANGED <<log, budget, running, backend>>

NextRevive ==
    \/ \E sid \in Sids, m \in ReviveScript : MakeMove(sid, m[1], m[2])
    \/ \E p \in CapturedPieces, sq \in CapturedOn : ReviveCall(p, sq)

SpecRevive == InitRevive /\ [][NextRevive]_vars

\* White (Blitzkrieg) brings a rook to d3 behind its own d-pawn and spends the
\* bonus move on the other rook; the black king has come to e7.
LineRookBehindPawn ==
    Replay(Joined(BLITZKRIEG, "none"),
           << <<"sid1", D2, D4>>, <<"sid2", E7, E6>>, <<"sid1", A1, D3>>,
              <<"sid1", H1, H3>>, <<"sid2", E8, E7>>, <<"sid1", A2, A3>> >>)

\* After 1. e4 f5 2. Qh5+ the black king is attacked along the diagonal h5-e8.
LineQueenCheck(black_skill) ==
    Replay(Joined("none", black_skill),
           << <<"sid1", E2, E4>>, <<"sid2", F7, F5>>, <<"sid1", D1, H5>> >>)

\* Both sides have Blitzkrieg.  After 1. e4 f5 2. Qh5+ Black's a8a6 is rejected
\* and Black's a1a7 is accepted.
LineCrossedRooks ==
    Replay(Joined(BLITZKRIEG, BLITZKRIEG),
           << <<"sid1", E2, E4>>, <<"sid2", F7, F5>>, <<"sid1", D1, H5>>,
              <<"sid2", A8, A6>>, <<"sid2", A1, A7>> >>)

\* No skills.  The white king has walked to h3, where a black knight on g3
\* and a black pawn on h4 hem it in; a white pawn has come to b7 and attacks
\* the bishop on its home square, whose diagonal to h3 the d7 pawn still
\* closes.  Black is to move.
LinePawnOnSeventh ==
    Replay(Joined("none", "none"),
           << <<"sid1", F2, F3>>, <<"sid2", G8, F6>>, <<"sid1", E1, F2>>, <<"sid2", H7, H5>>,
              <<"sid1", F2, G3>>, <<"sid2", G7, G6>>, <<"sid1", G3, H3>>, <<"sid2", H5, H4>>,
              <<"sid1", A2, A4>>, <<"sid2", F6, E4>>, <<"sid1", A4, A5>>, <<"sid2", E4, G3>>,
              <<"sid1", A5, A6>>, <<"sid2", F8, G7>>, <<"sid1", A6, B7>> >>)

\* White has Theocracy.  The e-file has been emptied of pawns and the white
\* bishop has stepped from f1 to e2, on the file of the black king; the black
\* bishop on g4 can take it.  Black is to move.
LineBishopOnFile ==
    Replay(Joined(THEOCRACY, "none"),
           << <<"sid1", E2, E4>>, <<"sid2", D7, D5>>, <<"sid1", E4, D5>>, <<"sid2", square(2, 7), G4>>,
              <<"sid1", D5, D6>>, <<"sid2", E7, D6>>, <<"sid1", F1, E2>> >>)

\* White has Blitzkrieg and has lost both bishops, Black has Theocracy and
\* both bishops.  The white f-, g- and e-pawns have advanced, a white rook has
\* jumped from h1 to f2 (and the other, on the bonus move, from a1 to c1), the
\* black bishops stand on a6 and h4 and a black knight on b4.  Black's last
\* request was the knight check b4-d3; White is to ask next.
LineExposedKing ==
    Replay(Joined(BLITZKRIEG, THEOCRACY),
           << <<"sid1", E2, E4>>, <<"sid2", B7, B6>>, <<"sid1", F1, A6>>, <<"sid2", square(2, 7), A6>>,
              <<"sid1", B2, B3>>, <<"sid2", E7, E6>>, <<"sid1", square(2, 0), A3>>, <<"sid2", F8, A3>>,
              <<"sid1", F2, F3>>, <<"sid2", A3, E7>>, <<"sid1", G2, G4>>, <<"sid2", B8, square(2, 5)>>,
              <<"sid1", H1, F2>>, <<"sid1", A1, square(2, 0)>>, <<"sid2", square(2, 5), B4>>,
              <<"sid1", A2, A4>>, <<"sid2", E7, H4>>, <<"sid1", H2, H3>>, <<"sid2", B4, D3>> >>)

Lines == { LineRookBehindPawn, LineQueenCheck(BLITZKRIEG), LineQueenCheck(THEOCRACY),
           LineCrossedRooks, LinePawnOnSeventh, LineBishopOnFile }

MidMoves == 1      \* moves pushed in a behaviour that starts from a line

MidLines == Lines \cup { LineExposedKing }

InitMid ==
    /\ \E st \in MidLines : games = st.games /\ last = st.last /\ log = st.log
    /\ budget = MidMoves
    /\ running = << >>
    /\ backend = << >>

NextMid ==
    \/ \E sid \in Sids, from_sq \in SQUARES, to_sq \in SQUARES : MakeMove(sid, from_sq, to_sq)
    \/ \E sid \in Sids : Resign(sid)

SpecMid == InitMid /\ [][NextMid]_vars

\* Games that go on from the lines with scripted requests: those of the
\* games from the start, and the answers to the bishop on the king's file
\* (the bishop is taken, the king steps aside, a bishop interposes).
LineScript == PlayScript \cup { <<G4, E2>>, <<E8, D7>>, <<F8, E7>> }

InitLines ==
    /\ \E st \in Lines : games = st.games /\ last = st.last /\ log = st.log
    /\ budget = MaxMoves
    /\ running = << >>
    /\ backend = << >>

NextLines == \E sid \in Sids, m \in LineScript : MakeMove(sid, m[1], m[2])

SpecLines == InitLines /\ [][NextLines]_vars

----------------------------------------------------------------------------
(* Handlers run in threads.  The module creates the server with             *)
(* SocketIO(app) and takes no lock; in the threading mode of the server     *)
(* each event is handled in a thread of its own, and a thread can be        *)
(* suspended between any two statements.  Here a make_move handler is cut   *)
(* in two at the trial push of step 3: the part up to board.push(move) and  *)
(* the part from there to the end of the handler.                           *)

Reqs == {"req1", "req2"}

\* The request passes the tests on_make_move makes before is_move_legal.
Admitted(gs, room, sid, from_name, to_name) ==
    /\ room \in DOMAIN gs
    /\ PlayerColor(gs[room], sid) # ""
    /\ (IF gs[room].turn = "w" THEN "black" ELSE "white") \in DOMAIN gs[room].skills
    /\ PlayerColor(gs[room], sid) = (IF gs[room].turn = "w" THEN "white" ELSE "black")
    /\ parse_square(from_name).exc = "" /\ parse_square(to_name).exc = ""

\* The local variables of the handler of an admitted request, and the room
\* after the counter has been read.
Locals(gs, room, sid, from_name, to_name) ==
    LET game  == gs[room]
        color == PlayerColor(game, sid)
        from_sq == parse_square(from_name).sq
        to_sq == parse_square(to_name).sq
    IN  [sid |-> sid, color |-> color,
         your_skill |-> game.skills[color],
         opponent_skill |-> game.skills[OtherColor(color)],
         move |-> [from |-> from_sq, to |-> to_sq,
                   promotion |-> IF is_promotion(game.board, from_sq, to_sq)
                                 THEN QUEEN ELSE "none"],
         second |-> get_skill_count(game, game.skills[color], PyStr(color)) > 0,
         game |-> EnsureSkill(game, game.skills[color])]

\* is_move_legal, called with the locals x, gets as far as board.push(move)
\* in step 3.
PassesToPush(x) ==
    /\ ~(x.second /\ SecondMoveStep(x.game, x.game.board, x.move, x.your_skill).done)
    /\ HasBasis(x.game.board, x.move, x.your_skill)
    /\ ~SameColorBlock(x.game.board, x.move)
    /\ ~KingCaptureBlock(x.game.board, x.move)
    /\ x.opponent_skill = SUBJECTS =>
          /\ is_movable_under_subjects(x.game.board, x.your_skill, x.opponent_skill,
                 PyInt(x.move.from), PyInt(x.move.to), x.game.board.turn).exc = ""
          /\ is_movable_under_subjects(x.game.board, x.your_skill, x.opponent_skill,
                 PyInt(x.move.from), PyInt(x.move.to), x.game.board.turn).ret

ReachesTrial(gs, room, sid, from_name, to_name) ==
    /\ Admitted(gs, room, sid, from_name, to_name)
    /\ PassesToPush(Locals(gs, room, sid, from_name, to_name))

\* The thread of request req has pushed the move of x for the trial.
Suspend(req, x) ==
    /\ games' = [games EXCEPT ![Room] = [x.game EXCEPT !.board = push(x.game.board, x.move)]]
    /\ running' = running @@ (req :> [sid |-> x.sid, color |-> x.color, move |-> x.move,
                                      your_skill |-> x.your_skill,
                                      opponent_skill |-> x.opponent_skill,
                                      second |-> x.second])
    /\ last' = Obs("make_move", x.sid, x.color, x.move.from, x.move.to, "trial", "",
                   x.second, FALSE, FALSE)
    /\ UNCHANGED <<log, budget, backend>>

\* A thread starts on_make_move and runs it to the trial push, or to the end
\* when the handler returns before.
BeginMove(req, sid, from_sq, to_sq) ==
    /\ budget > Cardinality(DOMAIN running)
    /\ req \notin DOMAIN running
    /\ IF ReachesTrial(games, Room, sid, square_name(from_sq), square_name(to_sq))
       THEN Suspend(req, Locals(games, Room, sid, square_name(from_sq), square_name(to_sq)))
       ELSE MakeMove(sid, from_sq, to_sq)

\* What is_move_legal returns to the thread with locals x when it goes on
\* from the trial push on the room's board as it now is; the push of the
\* accepted move raises when the origin square has been emptied meanwhile.
Resumed(board, x) ==
    LET tail == SelfCheckTail(board, x.your_skill, x.opponent_skill)
    IN  IF tail.exc = "" /\ tail.ret /\ PushRaises(tail.board, x.move)
        THEN [ret |-> FALSE, exc |-> "AssertionError", board |-> tail.board]
        ELSE tail

\* The thread of request req runs from the trial push to the end of the
\* handler.  If the room has been deleted meanwhile the thread works on the
\* room object it still holds, which no other handler can reach.
EndMove(req) ==
    /\ req \in DOMAIN running
    /\ running' = [r \in DOMAIN running \ {req} |-> running[r]]
    /\ UNCHANGED backend
    /\ IF Room \notin DOMAIN games
       THEN /\ last' = Obs("make_move", running[req].sid, running[req].color, None, None,
                           "detached", "", running[req].second, FALSE, FALSE)
            /\ UNCHANGED <<games, log, budget>>
       ELSE \E h \in { Judged(games, Room, games[Room], running[req].sid,
                              running[req].color, running[req].move,
                              running[req].your_skill, running[req].opponent_skill,
                              running[req].second,
                              Resumed(games[Room].board, running[req])) } :
               /\ games' = h.games
               /\ last' = h.obs
               /\ log' = IF h.obs.moved THEN Append(log, h.obs.color) ELSE log
               /\ budget' = IF h.obs.moved THEN budget - 1 ELSE budget

ConcMoves == 2     \* moves pushed in a behaviour with handlers in threads

ConcSkills == {"none", BLITZKRIEG}

ConcScript == { <<E2, E4>>, <<D2, D4>>, <<E7, E5>>, <<A1, A3>>, <<D1, H5>>, <<F7, F5>> }

InitConc ==
    /\ \E white_skill \in ConcSkills, black_skill \in ConcSkills :
          games = Joined(white_skill, black_skill).games
    /\ last = Start
    /\ log = << >>
    /\ budget = ConcMoves
    /\ running = << >>
    /\ backend = << >>

NextConc ==
    \/ \E req \in Reqs, sid \in Sids, m \in ConcScript : BeginMove(req, sid, m[1], m[2])
    \/ \E req \in Reqs : EndMove(req)
    \/ \E sid \in Sids : Resign(sid)

SpecConc == InitConc /\ [][NextConc]_vars

----------------------------------------------------------------------------
(* The card deck (src/backend/card_driver.py).  A status list is modelled   *)
(* as the set of its entries: append_status adds a status only when it is   *)
(* absent and nothing reads the order.  A card is its template id, its uuid *)
(* and its statuses; uuid4() gives the next number not yet issued.  The     *)
(* list deck_cards is a sequence; pre_draw reads it from its end.           *)

append_status(self, status) == [self EXCEPT !.status = @ \cup {status}]
has_status(self, status) == status \in self.status
remove_status(self, status) == [self EXCEPT !.status = @ \ {status}]

Card(id) == [id |-> id, uuid |-> 0, status |-> {}]

\* list.insert(idx, x) for idx >= 0
ListInsert(s, idx, x) ==
    LET i == IF idx > Len(s) THEN Len(s) ELSE idx
    IN  SubSeq(s, 1, i) \o <<x>> \o SubSeq(s, i + 1, Len(s))

add(self, card, idx) ==
    LET new_card == append_status([card EXCEPT !.uuid = self.issued + 1], "added_into_deck")
    IN  [self EXCEPT !.issued = @ + 1,
                     !.deck_cards = IF idx = None THEN Append(@, new_card)
                                    ELSE ListInsert(@, idx, new_card)]

\* Deck(cards): the constructor adds the templates one by one.
RECURSIVE AddAll(_, _)
AddAll(self, cards) ==
    IF cards = << >> THEN self ELSE AddAll(add(self, Head(cards), None), Tail(cards))

Deck(cards) == AddAll([deck_cards |-> << >>, status |-> {}, issued |-> 0, shuffles |-> 0], cards)

Orders(n) == { p \in [1..n -> 1..n] : \A i, j \in 1..n : p[i] = p[j] => i = j }

\* shuffle(): every order of the list is a possible outcome; shuffles counts
\* the calls of random.shuffle.
shuffle(self) ==
    { [self EXCEPT !.status = @ \cup {"shuffled"},
                   !.shuffles = @ + 1,
                   !.deck_cards = [i \in 1..Len(@) |-> remove_status(@[p[i]], "observed")]]
      : p \in Orders(Len(self.deck_cards)) }

\* remove(uuids): each uuid removes the first card that carries it, if any.
RECURSIVE remove(_, _)
remove(self, uuids) ==
    IF uuids = << >> THEN self
    ELSE LET found == { i \in DOMAIN self.deck_cards : self.deck_cards[i].uuid = Head(uuids) }
         IN  IF found = {} THEN remove(self, Tail(uuids))
             ELSE remove([self EXCEPT !.deck_cards =
                              SubSeq(@, 1, SetMin(found) - 1) \o SubSeq(@, SetMin(found) + 1, Len(@))],
                         Tail(uuids))

pre_draw(self, num) ==
    LET n == IF num < Len(self.deck_cards) THEN num ELSE Len(self.deck_cards)
    IN  [i \in 1..n |-> self.deck_cards[Len(self.deck_cards) - i + 1]]

Unpeeked_KeepFlag(self) ==
    IF has_status(self, "observed") THEN shuffle(self) ELSE { self }

\* The anti-peek step at the head of draw and draw_specific.
Unpeeked(self) ==
    IF has_status(self, "observed")
    THEN { remove_status(s, "observed") : s \in shuffle(self) }
    ELSE { self }

\* The cards of a list as the caller holds them after remove has marked
\* those it took out of the deck.
Marked(self, cards, taken) ==
    [i \in DOMAIN cards |->
        IF cards[i].uuid \in taken
        THEN [cards[i] EXCEPT !.status = @ \cup {"drawn_from_deck", "removed_from_deck"}]
        ELSE cards[i]]

Uuids(cards) == [i \in DOMAIN cards |-> cards[i].uuid]

DrawTop(self, num) ==
    LET drawn == pre_draw(self, num)
    IN  [deck |-> remove(self, Uuids(drawn)),
         ret |-> Marked(self, drawn, SeqRange(Uuids(drawn)))]

draw(self, num) == { DrawTop(s, num) : s \in Unpeeked(self) }

InDeck(self) == { self.deck_cards[i].uuid : i \in DOMAIN self.deck_cards }

\* The card objects of a list of uuids as they are when the call is made:
\* the deck's object for a card in the deck, a bare card otherwise.
Held(self, uuids) ==
    [i \in DOMAIN uuids |->
        IF uuids[i] \in InDeck(self)
        THEN self.deck_cards[CHOOSE k \in DOMAIN self.deck_cards :
                                 self.deck_cards[k].uuid = uuids[i]]
        ELSE [Card(0) EXCEPT !.uuid = uuids[i]]]

TakeSpecific(self, uuids) ==
    LET uuids_to_remove == SelectSeq(uuids, LAMBDA u : u \in InDeck(self))
    IN  [deck |-> remove(self, uuids_to_remove),
         ret |-> Marked(self, Held(self, uuids), SeqRange(uuids_to_remove))]

draw_specific(self, uuids) == { TakeSpecific(s, uuids) : s \in Unpeeked(self) }

\* observe(num, predicate): predicate None, or the test c.id = predicate.
\* The scan takes matching cards from the end of the list; sample() then
\* repeats cards already found, any of them.
Matching(self, predicate) ==
    SelectSeq(pre_draw(self, Len(self.deck_cards)), LAMBDA c : c.id = predicate)

Observed(self, num, predicate) ==
    IF predicate = None THEN { pre_draw(self, num) }
    ELSE LET all == Matching(self, predicate)
             found == SubSeq(all, 1, IF num < Len(all) THEN num ELSE Len(all))
         IN  IF found = << >> \/ Len(found) >= num THEN { found }
             ELSE { found \o pad : pad \in [1..(num - Len(found)) -> SeqRange(found)] }

Seen(self, observed) ==
    [self EXCEPT !.status = @ \cup {"observed"},
                 !.deck_cards = [i \in DOMAIN @ |->
                     IF @[i].uuid \in SeqRange(Uuids(observed))
                     THEN append_status(@[i], "observed") ELSE @[i]]]

observe(self, num, predicate) ==
    { [deck |-> Seen(self, observed),
       ret |-> [i \in DOMAIN observed |-> append_status(observed[i], "observed")]]
      : observed \in Observed(self, num, predicate) }

\* Calls on one deck.
MaxCards == 3      \* cards ever added to the deck
Templates == {1, 2}
Counts == 0..2     \* counts asked of draw and observe

DeckCall(op, arg, r) ==
    [kind |-> "deck", op |-> op, arg |-> arg, deck |-> r.deck, ret |-> r.ret]

InitDeck ==
    /\ games = << >> /\ last = Start /\ log = << >> /\ budget = 0 /\ running = << >>
    /\ \E cards \in { <<Card(1), Card(2)>>, <<Card(2)>> } :
          backend = DeckCall("Deck", << >>, [deck |-> Deck(cards), ret |-> << >>])

Fresh == [backend.deck EXCEPT !.shuffles = 0]

DeckAdd(id, idx) ==
    /\ backend.deck.issued < MaxCards
    /\ backend' = DeckCall("add", <<id, idx>>, [deck |-> add(Fresh, Card(id), idx), ret |-> << >>])
    /\ UNCHANGED <<games, last, log, budget, running>>

DeckDraw(num) ==
    /\ \E r \in draw(Fresh, num) : backend' = DeckCall("draw", <<num>>, r)
    /\ UNCHANGED <<games, last, log, budget, running>>

DeckDrawSpecific(uuids) ==
    /\ \E r \in draw_specific(Fresh, uuids) : backend' = DeckCall("draw_specific", uuids, r)
    /\ UNCHANGED <<games, last, log, budget, running>>

DeckObserve(num, predicate) ==
    /\ \E r \in observe(Fresh, num, predicate) :
          backend' = DeckCall("observe", <<num, predicate>>, r)
    /\ UNCHANGED <<games, last, log, budget, running>>

SpecificLists == { << >>, <<1>>, <<1, 1>>, <<2, 1>>, <<MaxCards>> }

NextDeck ==
    \/ \E id \in Templates, idx \in {None, 0} : DeckAdd(id, idx)
    \/ \E num \in Counts : DeckDraw(num)
    \/ \E uuids \in SpecificLists : DeckDrawSpecific(uuids)
    \/ \E num \in Counts, predicate \in {None, 1} : DeckObserve(num, predicate)

SpecDeck == InitDeck /\ [][NextDeck]_vars

----------------------------------------------------------------------------
(* The registry of card templates                                           *)
(* (src/backend/card_related/static_card_base.py).  A template is its name  *)
(* and its id; the two dictionaries are functions from the keys they hold.  *)

Template(name, id) == [name |-> name, id |-> id]

\* StaticCardBase(): the single instance as __init__ leaves it.
StaticCardBase == [card_base |-> << >>, by_name |-> << >>, by_id |-> << >>]

\* dict[key] = value
SetItem(dict, key, value) == [k \in DOMAIN dict \cup {key} |-> IF k = key THEN value ELSE dict[k]]

register_NameOnly(self, card) ==
    IF card.name \in DOMAIN self.by_name
    THEN [base |-> self, exc |-> "ValueError"]
    ELSE [base |-> [card_base |-> Append(self.card_base, card),
                    by_name |-> SetItem(self.by_name, card.name, card),
                    by_id |-> SetItem(self.by_id, card.id, card)],
          exc |-> ""]

register(self, card) ==
    IF card.name \in DOMAIN self.by_name
    THEN [base |-> self, exc |-> "ValueError"]
    ELSE IF card.id \in DOMAIN self.by_id
    THEN [base |-> self, exc |-> "ValueError"]
    ELSE [base |-> [card_base |-> Append(self.card_base, card),
                    by_name |-> SetItem(self.by_name, card.name, card),
                    by_id |-> SetItem(self.by_id, card.id, card)],
          exc |-> ""]

\* register_many: the exception of a register ends the loop and the call.
RECURSIVE register_many(_, _)
register_many(self, cards) ==
    IF cards = << >> THEN [base |-> self, exc |-> ""]
    ELSE LET r == register(self, Head(cards))
         IN  IF r.exc # "" THEN r ELSE register_many(r.base, Tail(cards))

clear(self) == [card_base |-> << >>, by_name |-> << >>, by_id |-> << >>]

\* Calls on the registry.
Names == {"a", "b"}
Ids == {1, 2, 3}
MaxMany == 2       \* longest list given to register_many
Listed == { Template(name, id) : name \in Names, id \in Ids }
ManyLists == UNION { [1..n -> Listed] : n \in 0..MaxMany }

BaseCall(op, arg, r) ==
    [kind |-> "base", op |-> op, arg |-> arg, base |-> r.base, exc |-> r.exc,
     added |-> Len(r.base.card_base) - Len(backend.base.card_base)]

InitBase ==
    /\ games = << >> /\ last = Start /\ log = << >> /\ budget = 0 /\ running = << >>
    /\ backend = [kind |-> "base", op |-> "StaticCardBase", arg |-> << >>,
                  base |-> StaticCardBase, exc |-> "", added |-> 0]

Register(card) ==
    /\ backend' = BaseCall("register", <<card>>, register(backend.base, card))
    /\ UNCHANGED <<games, last, log, budget, running>>

RegisterMany(cards) ==
    /\ backend' = BaseCall("register_many", cards, register_many(backend.base, cards))
    /\ UNCHANGED <<games, last, log, budget, running>>

Clear ==
    /\ backend' = BaseCall("clear", << >>, [base |-> clear(backend.base), exc |-> ""])
    /\ UNCHANGED <<games, last, log, budget, running>>

NextBase ==
    \/ \E card \in Listed : Register(card)
    \/ \E cards \in ManyLists : RegisterMany(cards)
    \/ Clear

SpecBase == InitBase /\ [][NextBase]_vars

----------------------------------------------------------------------------
(* A status effect on a piece (src/backend/chess_related/status_effect.py). *)

StatusEffect(name, stack, duration) ==
    [name |-> name, stack |-> Max(1, stack), duration |-> duration]

decrement_duration(self) ==
    IF self.duration > -1
    THEN [effect |-> [self EXCEPT !.duration = @ - 1], ret |-> self.duration - 1 <= 0]
    ELSE [effect |-> self, ret |-> FALSE]

\* Calls on one effect.
MaxDuration == 4   \* longest duration an effect is created with
MaxCalls == 5      \* calls of decrement_duration on one effect

InitEffect ==
    /\ games = << >> /\ last = Start /\ log = << >> /\ budget = 0 /\ running = << >>
    /\ \E name \in {"poisoned", "promotable"}, stack \in {-1, 1, 2}, duration \in -1..MaxDuration :
          backend = [kind |-> "effect", op |-> "StatusEffect", created |-> duration, calls |-> 0,
                     effect |-> StatusEffect(name, stack, duration), ret |-> FALSE]

Decrement ==
    /\ backend.calls < MaxCalls
    /\ backend' = [kind |-> "effect", op |-> "decrement_duration", created |-> backend.created,
                   calls |-> backend.calls + 1,
                   effect |-> decrement_duration(backend.effect).effect,
                   ret |-> decrement_duration(backend.effect).ret]
    /\ UNCHANGED <<games, last, log, budget, running>>

NextEffect == Decrement

SpecEffect == InitEffect /\ [][NextEffect]_vars

----------------------------------------------------------------------------
(* The calls the handlers make in the current state.                        *)

Ready == Room \in DOMAIN games /\ ~IsNoneBoard(games[Room].board)
CurGame == games[Room]
CurBoard == games[Room].board

\* The colour on_make_move lets move, its skill and the other colour's.
MoverKey == IF CurGame.turn = "w" THEN "white" ELSE "black"
YourSkill == CurGame.skills[MoverKey]
OppSkill == CurGame.skills[OtherColor(MoverKey)]
KeyOf(co) == IF co THEN "white" ELSE "black"

\* The move on_make_move builds for a request, and its second_move flag.
RequestMove(from_sq, to_sq) ==
    [from |-> from_sq, to |-> to_sq,
     promotion |-> IF is_promotion(CurBoard, from_sq, to_sq) THEN QUEEN ELSE "none"]
IsSecond == get_skill_count(CurGame, YourSkill, PyStr(MoverKey)) > 0

\* is_move_legal as on_make_move calls it, and as is_checkmate calls it.
Judge(from_sq, to_sq, second) ==
    is_move_legal(EnsureSkill(CurGame, YourSkill), CurBoard, RequestMove(from_sq, to_sq),
                  YourSkill, OppSkill, second)

\* The usage counter of a skill and colour, zero if never touched.
Counter(skill_name, ck) == EnsureSkill(CurGame, skill_name).counts[skill_name][ck]

SkillNames == {"none", THEOCRACY, BLITZKRIEG, RAMPAGE, SUBJECTS, "majesty"}

----------------------------------------------------------------------------
(* Claims.                                                                  *)

\* C1: whenever is_move_legal returns, the board (piece placement, side to
\* move, en passant square and move stack) is what it was before the call.
C1_BoardRestored ==
    Ready => \A f \in SQUARES, t \in SQUARES, second \in {IsSecond, FALSE} :
                LET j == Judge(f, t, second)
                IN  j.exc = "" => j.board = CurBoard

\* C2: bonus moves do not chain: no colour makes three moves in a row.
C2_NoThreeInARow ==
    \A i \in 1 .. (Len(log) - 2) : ~(log[i] = log[i + 1] /\ log[i + 1] = log[i + 2])

\* C3: a move the primary branch of is_move_legal accepts leaves the side
\* that moved not in check, by is_check on the position after the move with
\* that side to move and the skills of the call.
C3_AcceptedNotInCheck ==
    Ready => \A f \in SQUARES, t \in SQUARES :
                LET j == Judge(f, t, FALSE)
                IN  (j.exc = "" /\ j.ret) =>
                        ~is_check(WithTurn(push(CurBoard, RequestMove(f, t)), CurBoard.turn),
                                  YourSkill, OppSkill)

\* C3 witness: the side to move stands in check and some move is accepted.
C3_Witness ==
    /\ Ready
    /\ board_is_check(CurBoard)
    /\ \E f \in SQUARES, t \in SQUARES : Judge(f, t, FALSE).ret

\* C4: is_move_legal never raises: every call ends with a boolean.
C4_NeverRaises ==
    Ready => \A f \in SQUARES, t \in SQUARES, second \in {IsSecond, FALSE} :
                Judge(f, t, second).exc = ""

\* C5: a side with Theocracy and a bishop is never in check by is_check,
\* whatever attacks its king and whatever the other skill; for every other
\* side is_check is exactly the disjunction of the three kinds of check.
C5_BlanketImmunity ==
    Ready => \A co \in BOOLEAN, ys \in SkillNames, os \in SkillNames :
                LET b == WithTurn(CurBoard, co)
                    overall ==
                        \/ board_is_check(b)
                        \/ os = THEOCRACY /\ is_king_attacked_by_theocracy(b)
                        \/ os = BLITZKRIEG /\ is_king_attacked_by_blitzkrieg(b)
                IN  IF ys = THEOCRACY /\ pieces(b, BISHOP, co) # {}
                    THEN ~is_check(b, ys, os)
                    ELSE is_check(b, ys, os) = overall

\* C5 witness: the side to move has Theocracy and a bishop and its king is
\* attacked by the baseline rules.
C5_Witness ==
    /\ Ready
    /\ CurGame.skills[KeyOf(CurBoard.turn)] = THEOCRACY
    /\ pieces(CurBoard, BISHOP, CurBoard.turn) # {}
    /\ board_is_check(CurBoard)

\* A rook of the side `co` does not own stands on the rank or file of co's
\* king with nothing between them but pieces of the rook's colour.
RookLineToKing(b, co) ==
    LET k == king(b, co)
    IN  /\ k # None
        /\ \E r \in pieces(b, ROOK, ~co) :
              /\ square_file(r) = square_file(k) \/ square_rank(r) = square_rank(k)
              /\ \A sq \in between(r, k) : sq \in DOMAIN b.pc => b.pc[sq].co = ~co

\* C6: with attacker skill Blitzkrieg and no immunity, is_check is true
\* whenever an attacker's rook has a rank or file line to the king on which
\* every square between is empty or holds a piece of the rook's colour.
C6_BlitzkriegJumpCheck ==
    Ready => \A co \in BOOLEAN :
                LET b == WithTurn(CurBoard, co)
                    ys == CurGame.skills[KeyOf(co)]
                    os == CurGame.skills[KeyOf(~co)]
                IN  (/\ os = BLITZKRIEG
                     /\ ~(ys = THEOCRACY /\ pieces(b, BISHOP, co) # {})
                     /\ RookLineToKing(b, co)) => is_check(b, ys, os)

\* C7: in the primary branch the king-capture rule rejects a move exactly when
\* the target holds a king whose owner has Theocracy and owns a bishop.
C7_KingRuleByOwnerSkill ==
    Ready => \A f \in SQUARES, t \in SQUARES :
                LET m == RequestMove(f, t)
                    target == piece_at(CurBoard, t)
                IN  (HasBasis(CurBoard, m, YourSkill) /\ ~SameColorBlock(CurBoard, m)) =>
                        (KingCaptureBlock(CurBoard, m) <=>
                            /\ target.pt = KING
                            /\ CurGame.skills[KeyOf(target.co)] = THEOCRACY
                            /\ pieces(CurBoard, BISHOP, target.co) # {})

\* The squares ahead of a pawn of colour co on its file.
Projected(b, co) ==
    { sq \in SQUARES : \E p \in pieces(b, PAWN, co) :
        /\ square_file(sq) = square_file(p)
        /\ IF co THEN square_rank(sq) > square_rank(p) ELSE square_rank(sq) < square_rank(p) }

\* C8: when the other side has Subjects, the blockade test of a move that
\* reaches it allows a king in check, allows a destination that is not
\* projected by an enemy pawn, and allows a projected destination only for a
\* capture.
C8_SubjectsBlockade ==
    (Ready /\ OppSkill = SUBJECTS) =>
        \A f \in SQUARES, t \in SQUARES :
            LET m == RequestMove(f, t)
                d == is_movable_under_subjects(CurBoard, YourSkill, OppSkill,
                                               PyInt(f), PyInt(t), CurBoard.turn)
                allowed ==
                    \/ piece_at(CurBoard, f).pt = KING
                         /\ is_check(CurBoard, YourSkill, OppSkill)
                    \/ t \notin Projected(CurBoard, ~CurBoard.turn)
                    \/ is_capture(CurBoard, m)
            IN  (/\ HasBasis(CurBoard, m, YourSkill)
                 /\ ~SameColorBlock(CurBoard, m)
                 /\ ~KingCaptureBlock(CurBoard, m)) => (d.exc = "" /\ d.ret = allowed)

\* C9: a colour's usage counter is non-zero only while that colour holds the
\* turn for its own pending bonus move, with the skill the counter belongs to.
C9_CounterOfOwnColour ==
    Ready => \A s \in DOMAIN CurGame.counts, ck \in {"white", "black"} :
                CurGame.counts[s][ck] > 0 =>
                    (MoverKey = ck /\ CurGame.skills[ck] = s)

\* C10: Blitzkrieg grants a bonus on an accepted move only if the mover's
\* counter is zero, the mover owns two rooks or more, the moved piece is a
\* rook, the move is no capture and after it the other side is not in check
\* by is_check with that side's skill as mover skill and Blitzkrieg as
\* attacker skill.
C10_BlitzkriegGrant ==
    (Ready /\ YourSkill = BLITZKRIEG) =>
        \A f \in SQUARES, t \in SQUARES :
            LET m == RequestMove(f, t)
                j == Judge(f, t, IsSecond)
                x == check_extra_move(EnsureSkill(CurGame, YourSkill), CurBoard, m,
                                      YourSkill, OppSkill)
            IN  (x.granted /\ j.exc = "" /\ j.ret) =>
                    /\ Counter(BLITZKRIEG, MoverKey) = 0
                    /\ Cardinality(pieces(CurBoard, ROOK, CurBoard.turn)) >= 2
                    /\ piece_at(CurBoard, f).pt = ROOK
                    /\ ~is_capture(CurBoard, m)
                    /\ ~is_check(push(CurBoard, m), OppSkill, YourSkill)

\* The move takes a piece: the destination holds a piece of the other colour
\* than the piece that moves, or the move is an en passant capture.
TakesPiece(b, m) ==
    \/ /\ m.from \in DOMAIN b.pc /\ m.to \in DOMAIN b.pc
       /\ b.pc[m.to].co # b.pc[m.from].co
    \/ is_en_passant(b, m)

\* The bonus decision on_make_move takes for a request it has accepted.
ExtraMove(from_sq, to_sq) ==
    check_extra_move(EnsureSkill(CurGame, YourSkill), CurBoard, RequestMove(from_sq, to_sq),
                     YourSkill, OppSkill)

\* C11: on an accepted primary move Rampage grants a bonus exactly when the
\* mover's Rampage counter is zero, the moved piece is a knight and the move
\* takes a piece on the position before it is applied; a skill other than
\* Rampage and Blitzkrieg never grants a bonus.
C11_RampageGrant ==
    (Ready /\ ~IsSecond) =>
        \A f \in SQUARES, t \in SQUARES :
            LET j == Judge(f, t, FALSE)
            IN  (j.exc = "" /\ j.ret) =>
                    IF YourSkill = RAMPAGE
                    THEN ExtraMove(f, t).granted <=>
                            /\ Counter(RAMPAGE, MoverKey) = 0
                            /\ piece_at(CurBoard, f).pt = KNIGHT
                            /\ TakesPiece(CurBoard, RequestMove(f, t))
                    ELSE YourSkill # BLITZKRIEG => ~ExtraMove(f, t).granted

\* C11 witness: the handler has just granted a bonus to a Rampage knight that
\* captured.
C11_Witness ==
    /\ Ready
    /\ last.op = "make_move" /\ last.granted
    /\ CurGame.skills[last.color] = RAMPAGE
    /\ piece_at(CurBoard, last.to).pt = KNIGHT

TurnLetter(ck) == IF ck = "white" THEN "w" ELSE "b"

\* C12: after a move with a bonus granted, the mover's colour is still the
\* side to move on the board and in the room's turn field, its usage counter
\* for its skill is one more than before and the anchor square of the skill
\* is the destination of the move; after a move without a bonus the other
\* colour is the side to move and the mover's counter is zero.
C12_GrantOutcome ==
    [][ (/\ Ready
         /\ last'.op = "make_move" /\ last'.moved
         /\ Room \in DOMAIN games') =>
            LET ck == last'.color
                skill == CurGame.skills[ck]
                after == games'[Room]
                count_after == EnsureSkill(after, skill).counts[skill][ck]
            IN  IF last'.granted
                THEN /\ after.turn = TurnLetter(ck)
                     /\ after.board.turn = ColorOf(ck)
                     /\ count_after = Counter(skill, ck) + 1
                     /\ skill \in DOMAIN after.data
                     /\ after.data[skill] = last'.to
                ELSE /\ after.turn = TurnLetter(OtherColor(ck))
                     /\ after.board.turn = ColorOf(OtherColor(ck))
                     /\ count_after = 0 ]_vars

\* A Rampage bonus is pending for the colour of the last request: the handler
\* has just granted it, or has just rejected an attempt at the bonus move.
RampagePending ==
    /\ Ready
    /\ last.op = "make_move"
    /\ CurGame.skills[last.color] = RAMPAGE
    /\ last.granted \/ (last.second /\ last.out = "rejected")

\* After the move the king of the side that did not move is attacked.
DeliversCheck(b, m) ==
    LET after == [pc |-> PlacementAfter(b, m), turn |-> ~b.turn]
        k == king(after, ~b.turn)
    IN  k # None /\ is_attacked_by(after, b.turn, k)

\* C13: while a Rampage bonus is pending, a request of the pending colour is
\* judged as a bonus move; it is accepted only if its origin is the anchor
\* square, it takes no piece and it does not deliver check, and every move
\* from another square is rejected.
C13_RampageBonusMove ==
    RampagePending =>
        /\ MoverKey = last.color
        /\ IsSecond
        /\ \A f \in SQUARES, t \in SQUARES :
              LET j == Judge(f, t, IsSecond)
                  m == RequestMove(f, t)
              IN  /\ (j.exc = "" /\ j.ret) =>
                        /\ f = CurGame.data[RAMPAGE]
                        /\ ~TakesPiece(CurBoard, m)
                        /\ ~DeliversCheck(CurBoard, m)
                  /\ f # CurGame.data[RAMPAGE] => (j.exc = "" /\ ~j.ret)

\* C13 witness: the handler has accepted a bonus move of a Rampage knight.
C13_Witness ==
    /\ Ready
    /\ last.op = "make_move" /\ last.second /\ last.out = "accepted"
    /\ CurGame.skills[last.color] = RAMPAGE

\* C14: a Blitzkrieg bonus move is accepted only if the side to move has two
\* rooks or more and the piece that moves is one of its rooks, not the one on
\* the anchor square; a bonus move by the rook on the anchor square, or by a
\* piece that is no rook, is rejected.
C14_BlitzkriegBonusMove ==
    (Ready /\ YourSkill = BLITZKRIEG /\ IsSecond) =>
        \A f \in SQUARES, t \in SQUARES :
            LET j == Judge(f, t, TRUE)
                rooks == pieces(CurBoard, ROOK, CurBoard.turn)
                anchored == BLITZKRIEG \in DOMAIN CurGame.data
            IN  /\ (j.exc = "" /\ j.ret) =>
                      /\ Cardinality(rooks) >= 2
                      /\ f \in rooks
                      /\ anchored /\ f # CurGame.data[BLITZKRIEG]
                /\ (piece_at(CurBoard, f).pt # ROOK
                       \/ (anchored /\ f = CurGame.data[BLITZKRIEG]))
                    => (j.exc = "" /\ ~j.ret)

\* C14 witness: the handler has accepted a Blitzkrieg bonus move, made by the
\* rook that is not on the anchor square of the grant.
C14_Witness ==
    /\ Ready
    /\ last.op = "make_move" /\ last.second /\ last.out = "accepted"
    /\ CurGame.skills[last.color] = BLITZKRIEG
    /\ piece_at(CurBoard, last.to).pt = ROOK

\* The handler accepts the request and goes on to push the move.
MoveMade(from_sq, to_sq) ==
    LET j == Judge(from_sq, to_sq, IsSecond)
    IN  j.exc = "" /\ j.ret /\ RequestMove(from_sq, to_sq).promotion = "none"

\* The room on which on_make_move calls is_checkmate after it has accepted
\* and pushed the request.
MovedGame(from_sq, to_sq) ==
    LET j == Judge(from_sq, to_sq, IsSecond)
        x == check_extra_move([EnsureSkill(CurGame, YourSkill) EXCEPT !.board = j.board],
                              j.board, RequestMove(from_sq, to_sq), YourSkill, OppSkill)
    IN  TurnUpdate(x.game, MoverKey, RequestMove(from_sq, to_sq), YourSkill, x.granted)

\* What that call of is_checkmate does.
MateCall(from_sq, to_sq) ==
    is_checkmate(MovedGame(from_sq, to_sq), MovedGame(from_sq, to_sq).board,
                 OppSkill, YourSkill)

\* Checkmate by the baseline rules: the side to move is in check and has no
\* legal move, a pawn move to the last rank being one that promotes.
BaselineMate(b) ==
    /\ board_is_check(b)
    /\ ~\E f \in { sq \in DOMAIN b.pc : b.pc[sq].co = b.turn }, t \in SQUARES,
           pr \in {"none", QUEEN} :
              in_legal_moves(b, [from |-> f, to |-> t, promotion |-> pr])

\* C15: when neither side has a skill, is_checkmate returns true exactly when
\* the side to move is checkmated by the baseline rules.
C15_SkillFreeMate ==
    (Ready /\ YourSkill = "none" /\ OppSkill = "none") =>
        \A f \in SQUARES, t \in SQUARES :
            MoveMade(f, t) =>
                /\ MateCall(f, t).exc = ""
                /\ MateCall(f, t).ret <=> BaselineMate(MovedGame(f, t).board)

\* Some pair of a square holding a piece of the side to move and another
\* square is accepted by the primary branch of is_move_legal on board b.
HasEscape(game, b, your_skill, opponent_skill) ==
    \E f \in { sq \in DOMAIN b.pc : b.pc[sq].co = b.turn }, t \in SQUARES :
        LET r == is_move_legal(game, b, Move(f, t), your_skill, opponent_skill, FALSE)
        IN  t # f /\ r.exc = "" /\ r.ret

\* C16: is_checkmate returns false when the side to move is not in check by
\* is_check, and when it is in check returns true exactly if no move of a
\* piece of the side to move to another square is accepted by the primary
\* branch of is_move_legal.
C16_MateIffNoEscape ==
    Ready =>
        \A f \in SQUARES, t \in SQUARES :
            MoveMade(f, t) =>
                /\ MateCall(f, t).exc = ""
                /\ MateCall(f, t).ret <=>
                      /\ is_check(MovedGame(f, t).board, OppSkill, YourSkill)
                      /\ ~HasEscape(MovedGame(f, t), MovedGame(f, t).board,
                                    OppSkill, YourSkill)

\* Two different squares on one rank or file.
Straight(a, b) ==
    a # b /\ (square_file(a) = square_file(b) \/ square_rank(a) = square_rank(b))

\* C17: under Blitzkrieg a move of a rook of the side to move along a rank
\* or file has a basis for legality when every square strictly between origin
\* and destination is empty or holds a piece of that side, and has none when
\* a square strictly between holds a piece of the other side.
C17_BlitzkriegRookPath ==
    (Ready /\ YourSkill = BLITZKRIEG) =>
        \A f \in pieces(CurBoard, ROOK, CurBoard.turn), t \in SQUARES :
            Straight(f, t) =>
                IF \E sq \in between(f, t) :
                      sq \in DOMAIN CurBoard.pc /\ CurBoard.pc[sq].co # CurBoard.turn
                THEN ~HasBasis(CurBoard, RequestMove(f, t), BLITZKRIEG)
                ELSE HasBasis(CurBoard, RequestMove(f, t), BLITZKRIEG)

\* C17 witness: the handler has accepted a move of a Blitzkrieg rook over a
\* piece of its own colour.
C17_Witness ==
    /\ Ready
    /\ last.op = "make_move" /\ last.out = "accepted"
    /\ CurGame.skills[last.color] = BLITZKRIEG
    /\ piece_at(CurBoard, last.to).pt = ROOK
    /\ Straight(last.from, last.to)
    /\ \E sq \in between(last.from, last.to) :
          sq \in DOMAIN CurBoard.pc /\ CurBoard.pc[sq].co = ColorOf(last.color)

\* Two squares on a common rank, file or diagonal.
Aligned(a, b) ==
    \/ square_file(a) = square_file(b)
    \/ square_rank(a) = square_rank(b)
    \/ Abs(square_file(a) - square_file(b)) = Abs(square_rank(a) - square_rank(b))

\* C18: a move of a bishop of the side to move along a rank or file to an
\* empty square, with every square strictly between empty, has a basis for
\* legality when the mover's skill is Theocracy and is rejected with any other
\* skill; with Theocracy a bishop move gets no legality from the skill when
\* the two squares are on no common rank, file or diagonal or a piece stands
\* strictly between them.
C18_TheocracyBishopLine ==
    Ready =>
        \A f \in pieces(CurBoard, BISHOP, CurBoard.turn), t \in SQUARES :
            LET m == RequestMove(f, t)
                open == \A sq \in between(f, t) : sq \notin DOMAIN CurBoard.pc
                r == PrimaryBranch(CurBoard, m, YourSkill, OppSkill)
            IN  /\ (Straight(f, t) /\ t \notin DOMAIN CurBoard.pc /\ open) =>
                      IF YourSkill = THEOCRACY
                      THEN HasBasis(CurBoard, m, YourSkill)
                      ELSE ~HasBasis(CurBoard, m, YourSkill) /\ r.exc = "" /\ ~r.ret
                /\ (YourSkill = THEOCRACY /\ (~Aligned(f, t) \/ ~open)) =>
                      (HasBasis(CurBoard, m, YourSkill) => in_legal_moves(CurBoard, m))

\* C18 witness: the side to move has Theocracy and a bishop with a move along
\* a rank or file over empty squares to an empty square, which has a basis.
C18_Witness ==
    /\ Ready
    /\ YourSkill = THEOCRACY
    /\ \E f \in pieces(CurBoard, BISHOP, CurBoard.turn), t \in SQUARES :
          /\ Straight(f, t) /\ between(f, t) # {}
          /\ t \notin DOMAIN CurBoard.pc
          /\ \A sq \in between(f, t) : sq \notin DOMAIN CurBoard.pc
          /\ HasBasis(CurBoard, RequestMove(f, t), YourSkill)
          /\ ~in_legal_moves(CurBoard, RequestMove(f, t))

\* C20: a move the primary branch accepts is a legal move of the baseline
\* rules, unless the mover has Theocracy and the piece is a bishop or the
\* mover has Blitzkrieg and the piece is a rook.
C20_AcceptedIsBaselineLegal ==
    Ready =>
        \A f \in SQUARES, t \in SQUARES :
            LET m == RequestMove(f, t)
                r == PrimaryBranch(CurBoard, m, YourSkill, OppSkill)
            IN  (r.exc = "" /\ r.ret) =>
                    \/ in_legal_moves(CurBoard, m)
                    \/ YourSkill = THEOCRACY /\ piece_at(CurBoard, f).pt = BISHOP
                    \/ YourSkill = BLITZKRIEG /\ piece_at(CurBoard, f).pt = ROOK

\* C20 witness: the handler has accepted a primary move of a side whose
\* skill is neither Theocracy nor Blitzkrieg.
C20_Witness ==
    /\ Ready
    /\ last.op = "make_move" /\ last.out = "accepted" /\ ~last.second
    /\ CurGame.skills[last.color] \notin {THEOCRACY, BLITZKRIEG}

\* The squares strictly between two squares, in order from a to b, when they
\* are on a common rank, file or diagonal; the empty sequence otherwise.
StrictlyBetween(a, b) ==
    LET df == square_file(b) - square_file(a)
        dr == square_rank(b) - square_rank(a)
        n  == Max(Abs(df), Abs(dr))
    IN  IF a # b /\ Aligned(a, b) /\ n > 1
        THEN [i \in 1 .. (n - 1) |->
                square(square_file(a) + i * Sign(df), square_rank(a) + i * Sign(dr))]
        ELSE << >>

\* Step 1 of is_move_legal calls get_squares_between on the two squares of
\* the request: through is_path_clear for a Theocracy bishop on a queen-like
\* move, through is_path_clear_blitzkrieg for a Blitzkrieg rook.
PathAsked(from_sq, to_sq) ==
    /\ ~in_legal_moves(CurBoard, RequestMove(from_sq, to_sq))
    /\ \/ /\ YourSkill = THEOCRACY
          /\ piece_at(CurBoard, from_sq).pt = BISHOP
          /\ is_queen_like_move(from_sq, to_sq)
       \/ /\ YourSkill = BLITZKRIEG
          /\ piece_at(CurBoard, from_sq).pt = ROOK

\* C19: get_squares_between returns, in order from origin to destination, the
\* squares strictly between two squares on a common rank, file or diagonal,
\* and the empty sequence for two squares that are adjacent or on no common
\* line.
C19_SquaresBetween ==
    Ready =>
        \A f \in SQUARES, t \in SQUARES :
            PathAsked(f, t) => get_squares_between(f, t) = StrictlyBetween(f, t)

\* A move that is no legal move of the baseline rules and gets its basis for
\* legality from the Theocracy or Blitzkrieg rule of step 1.
CustomBasis(b, m, your_skill) ==
    /\ your_skill \in {THEOCRACY, BLITZKRIEG}
    /\ ~in_legal_moves(b, m)
    /\ HasBasis(b, m, your_skill)

\* C21: no move the primary branch of is_move_legal accepts has a destination
\* that holds a piece of the colour of the side to move, the moves whose
\* basis is a Theocracy or Blitzkrieg rule included.
C21_NoOwnPieceTarget ==
    Ready =>
        \A f \in SQUARES, t \in SQUARES :
            LET r == PrimaryBranch(CurBoard, RequestMove(f, t), YourSkill, OppSkill)
            IN  (r.exc = "" /\ r.ret) =>
                    ~(t \in DOMAIN CurBoard.pc /\ CurBoard.pc[t].co = CurBoard.turn)

\* C21 witness: a move with a basis from a skill rule aims at a piece of the
\* side to move and is rejected, and another move with such a basis is
\* accepted.
C21_Witness ==
    /\ Ready
    /\ \E f \in SQUARES, t \in SQUARES :
          /\ CustomBasis(CurBoard, RequestMove(f, t), YourSkill)
          /\ t \in DOMAIN CurBoard.pc /\ CurBoard.pc[t].co = CurBoard.turn
          /\ ~PrimaryBranch(CurBoard, RequestMove(f, t), YourSkill, OppSkill).ret
    /\ \E f \in SQUARES, t \in SQUARES :
          /\ CustomBasis(CurBoard, RequestMove(f, t), YourSkill)
          /\ PrimaryBranch(CurBoard, RequestMove(f, t), YourSkill, OppSkill).ret

\* Neither colour of the room has Theocracy or Blitzkrieg.
NeutralSkills ==
    \A ck \in {"white", "black"} : CurGame.skills[ck] \notin {THEOCRACY, BLITZKRIEG}

\* C22: when neither side has Theocracy or Blitzkrieg, is_check gives on the
\* room's board, for either side taken as the side to move with its own skill
\* as mover skill, the value of the baseline check test.
C22_NeutralEquivalence ==
    (Ready /\ NeutralSkills) =>
        \A co \in BOOLEAN :
            is_check(WithTurn(CurBoard, co), CurGame.skills[KeyOf(co)],
                     CurGame.skills[KeyOf(~co)])
                = board_is_check(WithTurn(CurBoard, co))

\* C22 witness: neither side has Theocracy or Blitzkrieg and the king of the
\* side to move is attacked.
C22_Witness ==
    /\ Ready
    /\ NeutralSkills
    /\ board_is_check(CurBoard)
    /\ is_check(CurBoard, CurGame.skills[KeyOf(CurBoard.turn)],
                CurGame.skills[KeyOf(~CurBoard.turn)])

\* A bishop of the side `co` does not own stands on a rank, file or diagonal
\* of co's king with every square between them empty.
BishopLineToKing(b, co) ==
    LET k == king(b, co)
    IN  /\ k # None
        /\ \E s \in pieces(b, BISHOP, ~co) :
              Aligned(s, k) /\ \A sq \in between(s, k) : sq \notin DOMAIN b.pc

\* C23: with attacker skill Theocracy and no immunity of the defender,
\* is_check is true whenever a bishop of the attacker has a clear rank, file
\* or diagonal line to the defender's king, and equals the baseline check
\* test when no bishop has such a line.
C23_TheocracyBishopCheck ==
    Ready =>
        \A co \in BOOLEAN, ys \in SkillNames :
            LET b == WithTurn(CurBoard, co)
            IN  ~(ys = THEOCRACY /\ pieces(b, BISHOP, co) # {}) =>
                    IF BishopLineToKing(b, co)
                    THEN is_check(b, ys, THEOCRACY)
                    ELSE is_check(b, ys, THEOCRACY) = board_is_check(b)

\* C23 witness: the side that is not to move has Theocracy and a bishop of
\* its own on the file of the other king with nothing between; the baseline
\* check test is false and is_check is true.
C23_Witness ==
    /\ Ready
    /\ OppSkill = THEOCRACY /\ YourSkill # THEOCRACY
    /\ CurBoard.turn = ColorOf(MoverKey)
    /\ BishopLineToKing(CurBoard, CurBoard.turn)
    /\ ~board_is_check(CurBoard)
    /\ is_check(CurBoard, YourSkill, OppSkill)

\* on_make_move run on the current room for a request of the client that
\* holds the turn.
HandleMove(from_sq, to_sq) ==
    on_make_move(games, Room, CurGame.players[MoverKey],
                 square_name(from_sq), square_name(to_sq))

\* No make_move or resign request changes the room table gs.
Inert(gs) ==
    \A sid \in Sids :
        /\ on_resign(gs, Room, sid).games = gs
        /\ \A m \in Script : on_make_move(gs, Room, sid, square_name(m[1]),
                                          square_name(m[2])).games = gs

\* The handler has ended the game on the request: the requesting colour is
\* the winner, the room is gone and later requests change nothing.
EndsGame(h) ==
    /\ h.obs.color = MoverKey
    /\ Room \notin DOMAIN h.games
    /\ Inert(h.games)

\* C24: after an accepted move is_checkmate is called on the updated board
\* with the skill of the colour then to move as mover skill and the skill of
\* the other colour as attacker skill; when it returns true the handler ends
\* the game with the mover as winner and removes the room, after which
\* make_move and resign requests for the room change nothing.
C24_MateAfterMove ==
    Ready =>
        \A f \in SQUARES, t \in SQUARES :
            MoveMade(f, t) =>
                /\ OppSkill = CurGame.skills[KeyOf(MovedGame(f, t).board.turn)]
                /\ YourSkill = CurGame.skills[KeyOf(~MovedGame(f, t).board.turn)]
                /\ HandleMove(f, t).obs.out = "game_over" => EndsGame(HandleMove(f, t))

\* on_resign ends the game for the client sid: the handler completes with
\* sid's colour as loser, hence the other colour as winner, and the room is
\* removed.
ResignEnds(sid) ==
    LET h == on_resign(games, Room, sid)
    IN  /\ h.obs.out = "game_over" /\ h.obs.exc = ""
        /\ h.obs.color = PlayerColor(games[Room], sid)
        /\ Room \notin DOMAIN h.games

\* C25: a resign request of a client that has joined the room ends the game
\* with the other colour as winner and removes the room, in every state of
\* the room: one player waiting, a move awaited, a bonus move pending.
C25_ResignFromAnyState ==
    \A sid \in Sids :
        (Room \in DOMAIN games /\ PlayerColor(games[Room], sid) # "") => ResignEnds(sid)

\* The client sid is a player of the room and its colour does not hold the
\* turn.
OutOfTurn(sid) ==
    /\ Room \in DOMAIN games
    /\ PlayerColor(games[Room], sid) = OtherColor(MoverKey)

\* C26: a make_move request of the colour that does not hold the turn is
\* turned away at the test of the turn, before is_move_legal is called, and
\* leaves the room (board, turn, usage counters, anchors) as it was.
C26_OutOfTurnRejected ==
    \A sid \in Sids :
        OutOfTurn(sid) =>
            \A f \in SQUARES, t \in SQUARES :
                LET h == on_make_move(games, Room, sid, square_name(f), square_name(t))
                IN  h.obs.out = "not_your_turn" /\ h.games = games

\* C26 witness: the handler has just turned away a request of the colour
\* that does not hold the turn, in a game in which moves have been made.
C26_Witness ==
    /\ Ready
    /\ last.op = "make_move" /\ last.out = "not_your_turn"
    /\ OutOfTurn(last.sid)
    /\ log # << >>

\* The home squares of a piece type and colour on which a piece can be
\* revived.
HomeSquares(pt, co) ==
    IF pt = BISHOP THEN { BISHOP_SQUARES(co)[k] : k \in {"LIGHT", "DARK"} }
    ELSE IF pt \in {KNIGHT, ROOK} THEN SeqRange(ORIGINAL_SQUARES(co, pt))
    ELSE {}

\* C27: a colour's revival flag, once set, stays set; a call of
\* handle_revive_skill for a piece of a colour whose flag is set changes
\* neither the board nor the flags; a call that puts no piece back leaves
\* the flags as they were; a call that puts a piece back finds the flag of
\* the piece's colour unset and sets it, so that at most one piece of a
\* colour is revived in a game.
C27_OneRevivalPerColour ==
    [][ (Ready /\ Room \in DOMAIN games') =>
            /\ \A ck \in {"white", "black"} :
                  revive_flag(games[Room], ck) => revive_flag(games'[Room], ck)
            /\ last'.op = "revive" =>
                  /\ revive_flag(games[Room], last'.color) => games' = games
                  /\ ~last'.granted => games' = games
                  /\ last'.granted =>
                        /\ ~revive_flag(games[Room], last'.color)
                        /\ revive_flag(games'[Room], last'.color)
                        /\ revive_flag(games'[Room], OtherColor(last'.color))
                              = revive_flag(games[Room], OtherColor(last'.color)) ]_vars

\* C27 witness: the last call was for a knight, bishop or rook of a colour
\* whose flag is set, with a home square of the piece empty, and put nothing
\* back.
C27_Witness ==
    /\ Ready
    /\ last.op = "revive" /\ ~last.granted
    /\ last.out \in {KNIGHT, BISHOP, ROOK}
    /\ revive_flag(CurGame, last.color)
    /\ \E h \in SeqRange(revival_squares(Piece(last.out, ColorOf(last.color)), last.from)) :
          h \notin DOMAIN CurBoard.pc

\* Light or dark: two squares have the same square colour when file plus
\* rank has the same parity.
SameSquareColour(a, b) ==
    (square_file(a) + square_rank(a)) % 2 = (square_file(b) + square_rank(b)) % 2

\* C28: when handle_revive_skill puts a piece back, the piece is a knight,
\* bishop or rook, the square is a home square of its colour and type that
\* was empty, no other square changes, and for a bishop the home square has
\* the square colour of the square the bishop was captured on.
C28_RevivalSquare ==
    Ready =>
        \A p \in CapturedPieces, sq \in CapturedOn :
            LET r == handle_revive_skill(CurBoard, p, sq, CurGame)
            IN  r.on # None =>
                    /\ p.pt \in {KNIGHT, BISHOP, ROOK}
                    /\ r.on \in HomeSquares(p.pt, p.co)
                    /\ r.on \notin DOMAIN CurBoard.pc
                    /\ r.board = [CurBoard EXCEPT !.pc = (r.on :> p) @@ @]
                    /\ p.pt = BISHOP => SameSquareColour(r.on, sq)

\* The queens' initial squares, d1 and d8, of the colours that have Theocracy.
TakenQueens(skills) ==
    (IF skills["white"] = THEOCRACY THEN {D1} ELSE {}) \cup
    (IF skills["black"] = THEOCRACY THEN {square(3, 7)} ELSE {})

\* C29: the board is set up when the second player joins and not before, with
\* no move made yet: the queen of each colour that has Theocracy is missing
\* and every other piece, the queen of another colour included, stands on its
\* initial square, White to move; a later join does not set the board up
\* again.
C29_SetupOnce ==
    /\ (Room \in DOMAIN games /\ Cardinality(DOMAIN games[Room].players) < 2) =>
           IsNoneBoard(games[Room].board)
    /\ (Ready /\ last.op = "join") =>
           /\ log = << >>
           /\ CurBoard.turn = WHITE /\ CurBoard.stack = << >>
           /\ DOMAIN CurBoard.pc = DOMAIN StartBoard.pc \ TakenQueens(CurGame.skills)
           /\ \A sq \in DOMAIN CurBoard.pc : CurBoard.pc[sq] = StartBoard.pc[sq]
    /\ Ready => \A sid \in Sids, skill \in JoinSkills :
                    on_join(games, Room, sid, skill) = games

\* C29 witness: the second player has just joined; one colour has Theocracy
\* and has lost its queen, the other has not and keeps it.
C29_Witness ==
    /\ Ready /\ last.op = "join"
    /\ \E ck \in {"white", "black"} :
          /\ CurGame.skills[ck] = THEOCRACY
          /\ CurGame.skills[OtherColor(ck)] # THEOCRACY
          /\ pieces(CurBoard, QUEEN, ColorOf(ck)) = {}
          /\ pieces(CurBoard, QUEEN, ~ColorOf(ck)) # {}

\* C30: while a make_move request is between its trial push and the pop, no
\* other request for the room is handled: the next step of the room is the
\* step in which that request goes on to its pop.
C30_NoInterleaving ==
    [][ \A req \in DOMAIN running : req \notin DOMAIN running' ]_vars


----------------------------------------------------------------------------
(* The deck.                                                                *)

Reverse(s) == [i \in DOMAIN s |-> s[Len(s) - i + 1]]
Least(a, b) == IF a < b THEN a ELSE b
CardsOf(b) == SeqRange(b.deck.deck_cards) \cup SeqRange(b.ret)

\* C31: after observe() the deck has the status 'observed'; a draw or
\* draw_specific on an observed deck shuffles exactly once, and afterwards
\* neither the deck nor any card has the status 'observed', so that a draw
\* that follows without an observe in between finds the deck unobserved and
\* does not shuffle; draw(num) removes min(num, deck size) cards and returns
\* them, and on an unobserved deck they are the cards at the end of the
\* list, the last one first.
C31_AntiPeek ==
    [][ /\ backend'.op = "observe" => has_status(backend'.deck, "observed")
        /\ backend'.op \in {"draw", "draw_specific"} =>
              /\ backend'.deck.shuffles = IF has_status(backend.deck, "observed") THEN 1 ELSE 0
              /\ ~has_status(backend'.deck, "observed")
              /\ has_status(backend.deck, "observed") =>
                    \A c \in CardsOf(backend') : ~has_status(c, "observed")
        /\ backend'.op = "draw" =>
              LET before == Uuids(backend.deck.deck_cards)
                  after == Uuids(backend'.deck.deck_cards)
                  n == Least(backend'.arg[1], Len(before))
              IN  /\ Len(backend'.ret) = n
                  /\ Len(after) = Len(before) - n
                  /\ SeqRange(after) \cup SeqRange(Uuids(backend'.ret)) = SeqRange(before)
                  /\ SeqRange(after) \cap SeqRange(Uuids(backend'.ret)) = {}
                  /\ ~has_status(backend.deck, "observed") =>
                        after \o Reverse(Uuids(backend'.ret)) = before
      ]_vars

\* A draw that took cards from a deck it had to shuffle first.
C31_Witness ==
    /\ backend.op = "draw"
    /\ backend.deck.shuffles = 1
    /\ backend.ret # << >>
    /\ backend.deck.deck_cards # << >>

\* The order in which the cards of the deck would be drawn, first drawn first.
DrawOrder(deck) == Uuids(DrawTop(deck, Len(deck.deck_cards)).ret)

\* C32: on an unobserved deck that held a card before, a card added with idx
\* None is the last card of the deck to be drawn and a card added with idx 0
\* is the next card drawn.
C32_AddEnds ==
    ( /\ backend.op = "add"
      /\ ~has_status(backend.deck, "observed")
      /\ Len(backend.deck.deck_cards) >= 2 )
    => /\ backend.arg[2] = None =>
             DrawOrder(backend.deck)[Len(backend.deck.deck_cards)] = backend.deck.issued
       /\ backend.arg[2] = 0 => DrawOrder(backend.deck)[1] = backend.deck.issued

----------------------------------------------------------------------------
(* The registry.                                                            *)

\* The list and the two indexes hold the same templates, each under its own
\* name and id, and no name or id twice.
Consistent(base) ==
    /\ SeqRange(base.card_base) = { base.by_name[k] : k \in DOMAIN base.by_name }
    /\ SeqRange(base.card_base) = { base.by_id[k] : k \in DOMAIN base.by_id }
    /\ \A k \in DOMAIN base.by_name : base.by_name[k].name = k
    /\ \A k \in DOMAIN base.by_id : base.by_id[k].id = k
    /\ \A i, j \in DOMAIN base.card_base :
          i # j => /\ base.card_base[i].name # base.card_base[j].name
                   /\ base.card_base[i].id # base.card_base[j].id

Clash(cards, card) == \E i \in DOMAIN cards : cards[i].name = card.name \/ cards[i].id = card.id

\* The templates of a list up to the first that clashes with a registered
\* template or with an earlier one of the list.
Accepted(registered, cards) ==
    LET bad == { i \in DOMAIN cards : Clash(registered \o SubSeq(cards, 1, i - 1), cards[i]) }
    IN  IF bad = {} THEN cards ELSE SubSeq(cards, 1, SetMin(bad) - 1)

\* C33: register raises ValueError exactly when the name or the id is already
\* registered and then changes nothing; register_many registers the
\* templates of its list up to the first duplicate and raises there; after
\* every call the list and the two indexes hold the same templates with
\* pairwise distinct names and ids.
C33_RegistryConsistent ==
    [][ /\ Consistent(backend'.base)
        /\ backend'.op = "register" =>
              /\ backend'.exc = "ValueError" <=> Clash(backend.base.card_base, backend'.arg[1])
              /\ backend'.exc = "ValueError" => backend'.base = backend.base
              /\ backend'.exc = "" =>
                    backend'.base.card_base = Append(backend.base.card_base, backend'.arg[1])
        /\ backend'.op = "register_many" =>
              /\ backend'.base.card_base =
                    backend.base.card_base \o Accepted(backend.base.card_base, backend'.arg)
              /\ backend'.exc = "ValueError" <=>
                    Accepted(backend.base.card_base, backend'.arg) # backend'.arg
        /\ backend'.op = "clear" => backend'.base.card_base = << >>
      ]_vars

\* A register_many that stopped at a duplicate after it had registered a
\* template of its list.
C33_Witness ==
    /\ backend.op = "register_many"
    /\ backend.exc = "ValueError"
    /\ backend.added >= 1
    /\ Len(backend.base.card_base) >= 2

----------------------------------------------------------------------------
(* Status effects.                                                          *)

\* C34: for an effect created with duration 0 or -1 every call of
\* decrement_duration returns false; for an effect created with duration
\* n >= 1 the calls before the n-th return false and the n-th returns true.
C34_PermanentNeverExpires ==
    backend.op = "decrement_duration" =>
        /\ backend.created \in {0, -1} => ~backend.ret
        /\ backend.created >= 1 =>
              /\ backend.calls < backend.created => ~backend.ret
              /\ backend.calls = backend.created => backend.ret

----------------------------------------------------------------------------
(* The board and the room after a request.                                  *)

TurnsAgree(game) == (game.board.turn = WHITE) <=> (game.turn = "w")

----------------------------------------------------------------------------
(* Bonus moves against the conditions of the primary branch.                *)

KnightJump(a, b) ==
    {Abs(square_file(a) - square_file(b)), Abs(square_rank(a) - square_rank(b))} = {1, 2}

\* The three conditions of the primary branch the claim names.
PassesPrimaryConditions(b, m, your_skill, opponent_skill) ==
    /\ HasBasis(b, m, your_skill)
    /\ ~SameColorBlock(b, m)
    /\ ~is_check(WithTurn(push(b, m), b.turn), your_skill, opponent_skill)

\* C36: a request judged as a bonus move is accepted only if the move has a
\* basis for legality, its destination holds no piece of the mover and it
\* does not leave the mover's king in check; an accepted Rampage bonus move
\* is a knight move.
C36_BonusMoveIsLegal ==
    (Ready /\ IsSecond) =>
        \A f \in SQUARES, t \in SQUARES :
            LET j == Judge(f, t, TRUE)
                m == RequestMove(f, t)
            IN  (j.exc = "" /\ j.ret) =>
                    /\ PassesPrimaryConditions(CurBoard, m, YourSkill, OppSkill)
                    /\ YourSkill = RAMPAGE => KnightJump(f, t)

----------------------------------------------------------------------------
(* Rook moves.                                                              *)

\* C37: every move of a rook of the side to move that is_move_legal accepts
\* as a primary move goes along a rank or a file.
C37_RookMovesStraight ==
    Ready =>
        \A f \in pieces(CurBoard, ROOK, CurBoard.turn), t \in SQUARES :
            LET j == Judge(f, t, FALSE)
            IN  (j.exc = "" /\ j.ret) => Straight(f, t)

----------------------------------------------------------------------------
(* Theocracy and checkmate.                                                 *)

\* The colour has Theocracy in the room and a bishop on board b.
BishopGuarded(b, co) ==
    CurGame.skills[KeyOf(co)] = THEOCRACY /\ pieces(b, BISHOP, co) # {}

\* C38: for a colour with Theocracy that has a bishop on the board,
\* is_checkmate called for that colour returns false whatever the other
\* skill, and no make_move request ends the game by checkmate against that
\* colour while it has a bishop on the board the verdict is taken on.
C38_TheocracyNeverMated ==
    Ready =>
        /\ \A co \in {WHITE, BLACK}, skill \in SkillNames :
              BishopGuarded(CurBoard, co) =>
                  LET cm == is_checkmate(CurGame, WithTurn(CurBoard, co), THEOCRACY, skill)
                  IN  cm.exc = "" /\ ~cm.ret
        /\ \A f \in SQUARES, t \in SQUARES :
              HandleMove(f, t).obs.out = "game_over" =>
                  ~BishopGuarded(MovedGame(f, t).board, ColorOf(OtherColor(MoverKey)))

----------------------------------------------------------------------------
(* Promotion.                                                               *)

\* The request from_sq -> to_sq takes a pawn of the colour to move to its last
\* rank and is_move_legal accepts the queen promotion built for it.
LegalPromotion(from_sq, to_sq) ==
    /\ is_promotion(CurBoard, from_sq, to_sq)
    /\ piece_at(CurBoard, from_sq).co = ColorOf(MoverKey)
    /\ LET j == Judge(from_sq, to_sq, IsSecond)
       IN  j.exc = "" /\ j.ret

\* C39: a legal request that moves a pawn to its last rank is handled
\* without error, puts a queen of the mover's colour on the destination
\* square and, unless it ends the game, passes the turn.
C39_PromotionAccepted ==
    Ready =>
        \A from_sq \in pieces(CurBoard, PAWN, ColorOf(MoverKey)), to_sq \in SQUARES :
            LegalPromotion(from_sq, to_sq) =>
                LET h == HandleMove(from_sq, to_sq)
                IN  /\ h.obs.exc = ""
                    /\ h.obs.out \in {"accepted", "game_over"}
                    /\ h.obs.out = "accepted" =>
                          /\ piece_at(h.games[Room].board, to_sq)
                                = [pt |-> QUEEN, co |-> ColorOf(MoverKey)]
                          /\ h.games[Room].turn # CurGame.turn

=============================================================================
